---- MODULE Spec2Model ----
(***************************************************************************)
(* Model of src/src/lib.rs: RustTaskExecutor (the task registry with       *)
(* dependency tracking) and RustToolExecutor (the recursion-depth guard    *)
(* with its result cache).                                                 *)
(***************************************************************************)
EXTENDS Integers, Sequences, FiniteSets, TLC

VARIABLES
    tasks,      \* RustTaskExecutor.tasks: HashMap<String, TaskInfo>
    tstats,     \* RustTaskExecutor.stats: TaskExecutionStats
    ret,        \* the last RustTaskExecutor call and what it returned
    completed_calls,
                \* history: the identifiers whose latest register_task,
                \* mark_started, mark_completed or mark_failed call was a
                \* mark_completed that succeeded
    completed_ever,
                \* history: the identifiers on which some mark_completed call
                \* has succeeded
    max_recursion_depth,
                \* RustToolExecutor.max_recursion_depth
    execution_count,
                \* RustToolExecutor.execution_count: the value in the Mutex
    count_lock, \* the caller that holds the execution_count Mutex, or None
    gstats,     \* RustToolExecutor.stats: ExecutionStats
    pc,         \* per caller: the RustToolExecutor call it is in and where
    gret,       \* the last RustToolExecutor call that returned and its value
    ghist,      \* history: calls issued, begin_execution calls admitted and
                \* refused, end_execution calls done, and whether a begin was
                \* decided after an end, or while another begin was pending
    cache_ttl_secs,
                \* RustToolExecutor.cache_ttl_secs
    result_cache,
                \* RustToolExecutor.result_cache: HashMap<String, CachedResult>
    now,        \* the clock std::time::Instant reads, in ticks
    cret,       \* the last cache call and what it returned
    chist,      \* history: cache_result and get_cached calls made, the
                \* result last stored for each (tool_name, args), the keys a
                \* lookup has found in the map but too old, and the keys
                \* stored since the last clear_cache
    mutex,      \* per Mutex of the two executors: the thread that holds its
                \* guard, or None
    thread,     \* per thread: the call it is in, the guard it acquires next,
                \* and the counter value it has loaded
    tret,       \* the last call of a thread that returned
    thist,      \* history: calls issued by threads, and per operation the
                \* number that returned Ok
    conc,       \* the execute_concurrent_tasks call in progress: its list,
                \* the handles pushed, the units that have run, the results
    orch        \* per orchestrator: the get_ready_tasks result it works on
                \* and the tasks it has started; history: per task the
                \* orchestrators whose mark_started on it succeeded, and
                \* whether one of them found it no longer Pending

taskVars == <<tasks, tstats, ret, completed_calls, completed_ever>>

guardVars == <<max_recursion_depth, execution_count, count_lock, gstats, pc, gret, ghist>>

cacheVars == <<cache_ttl_secs, result_cache, now, cret, chist>>

threadVars == <<mutex, thread, tret, thist, conc, orch>>

vars == <<taskVars, guardVars, cacheVars, threadVars>>

(***************************************************************************)
(* Bounds of the model.                                                    *)
(***************************************************************************)
\* register_task is not called once tasks_scheduled has reached this.
MaxScheduled == 3
\* mark_completed is not called once tasks_completed has reached this.
MaxCompleted == 2
\* mark_failed is not called once tasks_failed has reached this.
MaxFailed == 1

\* The longest dependency list of the graphs execution order is computed for.
MaxDeps == 2

\* The identifiers callers use for tasks.
TaskIds == {"A", "B", "C"}
\* The dependency lists callers pass to register_task: order and duplicates
\* are kept, as in a Vec<String>.
DepLists == {<<>>, <<"A">>, <<"A", "B">>, <<"B", "A">>}
\* The result and error strings callers pass.
Results == {"r1"}
Errors == {"e1"}

\* Option::None
None == "None"

\* The threads that call into one RustToolExecutor.
Callers == {"c1", "c2", "c3"}
\* The largest max_recursion_depth a guard is constructed with.
MaxDepth == 2
\* The number of RustToolExecutor calls issued in one run.
MaxCalls == 4
\* The largest cache_ttl_secs a guard is constructed with.
MaxTtl == 1
\* Clock ticks in one second, and the tick at which the clock stops.
TicksPerSec == 2
MaxTime == 3
\* The number of cache_result calls and of get_cached calls in one run.
MaxPuts == 2
MaxLookups == 2
\* cache_ttl_secs when the constructor is called without it.
DefaultTtl == 300
\* Tool names and argument strings, as sequences of characters.
Names == {<<"t">>, <<"t", ":">>}
ArgStrs == {<<"x">>, <<":", "x">>}
\* The results callers store in the cache.
CacheResults == {"r1", "r2"}
\* The longest time, in milliseconds, one execute_concurrent_tasks call
\* takes, and the total_execution_time_ms it is not called beyond.
MaxElapsedMs == 1
MaxTotalMs == 2
\* The payloads callers pass as args_json, as sequences of characters:
\* {}   {"a":1}   [1,1]   " 1"   and   {b   [1,]   {"a"1}   the empty string
Payloads ==
    { <<"{", "}">>,
      <<"{", "\"", "a", "\"", ":", "1", "}">>,
      <<"[", "1", ",", "1", "]">>,
      <<" ", "1">>,
      <<"{", "b">>,
      <<"[", "1", ",", "]">>,
      <<"{", "\"", "a", "\"", "1", "}">>,
      <<>> }
\* Further payloads callers pass to parse_args, all of them JSON texts.
\* {"a":1,"b":2}
ObjAB == <<"{", "\"", "a", "\"", ":", "1", ",", "\"", "b", "\"", ":", "2", "}">>
\* {"b":2, "a":1}
ObjBA == <<"{", "\"", "b", "\"", ":", "2", ",", " ", "\"", "a", "\"", ":", "1", "}">>
\* { "b" : 2 ,"a":1}
ObjBASpaced ==
    <<"{", " ", "\"", "b", "\"", " ", ":", " ", "2", " ", ",",
      "\"", "a", "\"", ":", "1", "}">>
\* {"a":2,"a":1}
ObjAA == <<"{", "\"", "a", "\"", ":", "2", ",", "\"", "a", "\"", ":", "1", "}">>
\* [ {"b":[ ],"a":"b"} ]
NestedBA ==
    <<"[", " ", "{", "\"", "b", "\"", ":", "[", " ", "]", ",",
      "\"", "a", "\"", ":", "\"", "b", "\"", "}", " ", "]">>
\* [{"a":"b","b":[]}]
NestedAB ==
    <<"[", "{", "\"", "a", "\"", ":", "\"", "b", "\"", ",",
      "\"", "b", "\"", ":", "[", "]", "}", "]">>
\* 1
One == <<"1">>
KeyOrderPayloads == {ObjAB, ObjBA, ObjBASpaced, ObjAA, NestedBA, NestedAB, One}
\* The longest list callers pass to batch_validate, and the payloads in it:
\* {}   {b
MaxBatch == 3
BatchPayloads == {<<"{", "}">>, <<"{", "b">>}
BatchLists == UNION {[1..n -> BatchPayloads] : n \in 0..MaxBatch}
\* The lists of identifiers callers pass to execute_concurrent_tasks.
ExecLists == {<<>>, <<"A">>, <<"B", "A", "B">>}
\* The orchestrators that drive one task graph.
Orchestrators == {"o1", "o2"}
\* The threads that call into the two executors at the same time, the calls
\* they issue in one run, and the Mutexes of the two executors.
Threads == {"t1", "t2"}
MaxThreadCalls == 4
Mutexes == {"execution_count", "result_cache", "tool_stats", "tasks", "task_stats"}
StatsMutexes == {"tool_stats", "task_stats"}
\* The operations that take two guards.
ThreadOps ==
    {"register_task", "mark_completed", "mark_failed", "begin_execution", "get_cached"}
\* The execute_concurrent_tasks calls made in one run.
MaxConcurrentCalls == 2

(***************************************************************************)
(* Helpers on sequences and sets.                                          *)
(***************************************************************************)
Range(s) == {s[i] : i \in 1..Len(s)}

\* The orders in which iterating a HashMap with key set S can yield its keys.
IterOrders(S) == {p \in [1..Cardinality(S) -> S] : Range(p) = S}

(***************************************************************************)
(* RustToolExecutor::new                                                   *)
(***************************************************************************)
NoCall == [at |-> "idle", tool_name |-> None, args |-> None]

NoHistory ==
    [calls |-> 0, ok_begins |-> 0, fail_begins |-> 0, ends |-> 0,
     begin_after_end |-> FALSE, overlapped |-> FALSE]

\* No thread is in a call and no guard is held.
NoThreadCall == [op |-> None, arg |-> None, at |-> "idle", next |-> 0, local |-> 0,
                 hit |-> FALSE]

NoConcurrentCall ==
    [at |-> "idle", tasks |-> <<>>, handles |-> 0, finished |-> {}, results |-> <<>>,
     calls |-> 0]

NoThreads ==
    /\ mutex = [m \in Mutexes |-> None]
    /\ thread = [t \in Threads |-> NoThreadCall]
    /\ tret = [thread |-> None, op |-> "new", ok |-> TRUE]
    /\ thist = [calls |-> 0, ok |-> [op \in ThreadOps |-> 0]]
    /\ conc = NoConcurrentCall
    /\ orch = [ready |-> [o \in Orchestrators |-> <<>>],
               started |-> [o \in Orchestrators |-> {}],
               starts |-> [id \in TaskIds |-> {}],
               stale |-> FALSE]

NewGuard(depth, ttl) ==
    /\ NoThreads
    /\ max_recursion_depth = depth
    /\ cache_ttl_secs = ttl
    /\ result_cache = <<>>
    /\ now = 0
    /\ cret = [op |-> "new", tool_name |-> None, args |-> None, val |-> None, at |-> 0]
    /\ chist = [puts |-> 0, gets |-> 0, last_put |-> <<>>, expired |-> {},
                put_keys |-> {}]
    /\ execution_count = 0
    /\ count_lock = None
    /\ gstats = [total_executions |-> 0, cache_hits |-> 0, cache_misses |-> 0,
                 validation_failures |-> 0]
    /\ pc = [c \in Callers |-> NoCall]
    /\ gret = [caller |-> None, op |-> "new", ok |-> TRUE, val |-> None]
    /\ ghist = NoHistory

\* The guard while only the task executor is exercised.
GuardIdle == NewGuard(1, DefaultTtl)

(***************************************************************************)
(* TaskState, TaskInfo                                                     *)
(***************************************************************************)
TaskState == {"Pending", "Running", "Completed", "Failed"}

TaskInfo(deps, st, res, err) ==
    [dependencies |-> deps, state |-> st, result |-> res, error |-> err]

Ok(op, arg, val) == [op |-> op, arg |-> arg, ok |-> TRUE, val |-> val]
Err(op, arg, e) == [op |-> op, arg |-> arg, ok |-> FALSE, val |-> e]

(***************************************************************************)
(* RustTaskExecutor::new                                                   *)
(***************************************************************************)
NewTaskExecutor ==
    /\ tasks = <<>>
    /\ tstats = [tasks_scheduled |-> 0, tasks_completed |-> 0, tasks_failed |-> 0,
                 total_execution_time_ms |-> 0]
    /\ ret = Ok("new", None, None)
    /\ completed_calls = {}
    /\ completed_ever = {}

TaskInit == NewTaskExecutor /\ GuardIdle

\* HashMap::insert
MapInsert(m, k, v) == [x \in (DOMAIN m) \cup {k} |-> IF x = k THEN v ELSE m[x]]

(***************************************************************************)
(* RustTaskExecutor::register_task                                         *)
(***************************************************************************)
\* A variant that leaves a task that is already in the map as it is.
register_taskKeepsExisting(task_id, dependencies) ==
    /\ tstats.tasks_scheduled < MaxScheduled
    /\ tasks' = IF task_id \in DOMAIN tasks THEN tasks
                ELSE MapInsert(tasks, task_id, TaskInfo(dependencies, "Pending", None, None))
    /\ tstats' = [tstats EXCEPT !.tasks_scheduled = @ + 1]
    /\ ret' = Ok("register_task", task_id, None)
    /\ completed_calls' = completed_calls \ {task_id}
    /\ UNCHANGED <<completed_ever, guardVars, cacheVars, threadVars>>

register_task(task_id, dependencies) ==
    /\ tstats.tasks_scheduled < MaxScheduled
    /\ tasks' = MapInsert(tasks, task_id, TaskInfo(dependencies, "Pending", None, None))
    /\ tstats' = [tstats EXCEPT !.tasks_scheduled = @ + 1]
    /\ ret' = Ok("register_task", task_id, None)
    /\ completed_calls' = completed_calls \ {task_id}
    /\ UNCHANGED <<completed_ever, guardVars, cacheVars, threadVars>>

(***************************************************************************)
(* RustTaskExecutor::mark_started                                          *)
(***************************************************************************)
\* A variant that puts the task in state Pending.
mark_startedToPending(task_id) ==
    /\ IF task_id \in DOMAIN tasks
       THEN /\ tasks' = [tasks EXCEPT ![task_id].state = "Pending"]
            /\ ret' = Ok("mark_started", task_id, None)
            /\ completed_calls' = completed_calls \ {task_id}
            /\ UNCHANGED <<tstats, completed_ever>>
       ELSE /\ ret' = Err("mark_started", task_id, "NotFound")
            /\ UNCHANGED <<tasks, tstats, completed_calls, completed_ever>>
    /\ UNCHANGED <<guardVars, cacheVars, threadVars>>

mark_started(task_id) ==
    /\ IF task_id \in DOMAIN tasks
       THEN /\ tasks' = [tasks EXCEPT ![task_id].state = "Running"]
            /\ ret' = Ok("mark_started", task_id, None)
            /\ completed_calls' = completed_calls \ {task_id}
            /\ UNCHANGED <<tstats, completed_ever>>
       ELSE /\ ret' = Err("mark_started", task_id, "NotFound")
            /\ UNCHANGED <<tasks, tstats, completed_calls, completed_ever>>
    /\ UNCHANGED <<guardVars, cacheVars, threadVars>>

(***************************************************************************)
(* RustTaskExecutor::mark_completed                                        *)
(***************************************************************************)
\* A variant that stores the result and leaves the state as it was.
CompletedInfoKeepsState(task, result) == [task EXCEPT !.result = result]

\* The assignments of mark_completed to the task it found.
CompletedInfo(task, result) == [task EXCEPT !.state = "Completed", !.result = result]

mark_completed(task_id, result) ==
    /\ tstats.tasks_completed < MaxCompleted
    /\ IF task_id \in DOMAIN tasks
       THEN /\ tasks' = [tasks EXCEPT ![task_id] = CompletedInfo(@, result)]
            /\ tstats' = [tstats EXCEPT !.tasks_completed = @ + 1]
            /\ ret' = Ok("mark_completed", task_id, None)
            /\ completed_calls' = completed_calls \cup {task_id}
            /\ completed_ever' = completed_ever \cup {task_id}
       ELSE /\ ret' = Err("mark_completed", task_id, "NotFound")
            /\ UNCHANGED <<tasks, tstats, completed_calls, completed_ever>>
    /\ UNCHANGED <<guardVars, cacheVars, threadVars>>

(***************************************************************************)
(* RustTaskExecutor::mark_failed                                           *)
(***************************************************************************)
\* A variant that stores the failure and leaves tasks_failed as it was.
mark_failedUncounted(task_id, error) ==
    /\ IF task_id \in DOMAIN tasks
       THEN /\ tasks' = [tasks EXCEPT ![task_id].state = "Failed", ![task_id].error = error]
            /\ ret' = Ok("mark_failed", task_id, None)
            /\ completed_calls' = completed_calls \ {task_id}
            /\ UNCHANGED <<tstats, completed_ever>>
       ELSE /\ ret' = Err("mark_failed", task_id, "NotFound")
            /\ UNCHANGED <<tasks, tstats, completed_calls, completed_ever>>
    /\ UNCHANGED <<guardVars, cacheVars, threadVars>>

mark_failed(task_id, error) ==
    /\ tstats.tasks_failed < MaxFailed
    /\ IF task_id \in DOMAIN tasks
       THEN /\ tasks' = [tasks EXCEPT ![task_id].state = "Failed", ![task_id].error = error]
            /\ tstats' = [tstats EXCEPT !.tasks_failed = @ + 1]
            /\ ret' = Ok("mark_failed", task_id, None)
            /\ completed_calls' = completed_calls \ {task_id}
            /\ UNCHANGED completed_ever
       ELSE /\ ret' = Err("mark_failed", task_id, "NotFound")
            /\ UNCHANGED <<tasks, tstats, completed_calls, completed_ever>>
    /\ UNCHANGED <<guardVars, cacheVars, threadVars>>

(***************************************************************************)
(* RustTaskExecutor::clear                                                 *)
(***************************************************************************)
\* A variant that also zeroes the counters.
clearResetsStats ==
    /\ tasks' = <<>>
    /\ tstats' = [tasks_scheduled |-> 0, tasks_completed |-> 0, tasks_failed |-> 0,
                  total_execution_time_ms |-> 0]
    /\ ret' = Ok("clear", None, None)
    /\ completed_calls' = {}
    /\ UNCHANGED <<completed_ever, guardVars, cacheVars, threadVars>>

clear ==
    /\ tasks' = <<>>
    /\ ret' = Ok("clear", None, None)
    /\ completed_calls' = {}
    /\ UNCHANGED <<tstats, completed_ever, guardVars, cacheVars, threadVars>>

(***************************************************************************)
(* RustTaskExecutor::get_ready_tasks                                       *)
(***************************************************************************)
\* A variant that skips a dependency that is missing from the map.
RECURSIVE DepsSatisfiedSkipMissing(_, _, _)
DepsSatisfiedSkipMissing(t, deps, i) ==
    IF i > Len(deps) THEN TRUE
    ELSE IF deps[i] \in DOMAIN t
         THEN IF t[deps[i]].state # "Completed" THEN FALSE
              ELSE DepsSatisfiedSkipMissing(t, deps, i + 1)
         ELSE DepsSatisfiedSkipMissing(t, deps, i + 1)

\* The inner loop over task.dependencies, from position i on: FALSE at the
\* first dependency that is missing from the map or is not Completed.
RECURSIVE DepsSatisfied(_, _, _)
DepsSatisfied(t, deps, i) ==
    IF i > Len(deps) THEN TRUE
    ELSE IF deps[i] \in DOMAIN t
         THEN IF t[deps[i]].state # "Completed" THEN FALSE
              ELSE DepsSatisfied(t, deps, i + 1)
         ELSE FALSE

\* The outer loop over tasks.iter(), which yields the keys in `order`.
RECURSIVE ReadyLoop(_, _, _, _)
ReadyLoop(t, order, i, ready) ==
    IF i > Len(order) THEN ready
    ELSE IF t[order[i]].state # "Pending"
         THEN ReadyLoop(t, order, i + 1, ready)
         ELSE IF DepsSatisfied(t, t[order[i]].dependencies, 1)
              THEN ReadyLoop(t, order, i + 1, Append(ready, order[i]))
              ELSE ReadyLoop(t, order, i + 1, ready)

get_ready_tasks ==
    /\ \E order \in IterOrders(DOMAIN tasks) :
           ret' = Ok("get_ready_tasks", None, ReadyLoop(tasks, order, 1, <<>>))
    /\ UNCHANGED <<tasks, tstats, completed_calls, completed_ever, guardVars, cacheVars, threadVars>>

(***************************************************************************)
(* RustTaskExecutor::can_execute                                           *)
(***************************************************************************)
\* A variant that looks at the first dependency only.
CanExecuteLoopFirstOnly(t, task_id, deps, i) ==
    IF i > Len(deps) THEN Ok("can_execute", task_id, TRUE)
    ELSE IF deps[i] \in DOMAIN t
         THEN Ok("can_execute", task_id, t[deps[i]].state = "Completed")
         ELSE Err("can_execute", task_id, "NotFound")

\* The loop over task.dependencies, from position i on: it returns at the
\* first dependency that is not Completed (Ok(false)) or is missing from
\* the map (the "Dependency task ... not found" error), and Ok(true) when
\* it runs to the end.
RECURSIVE CanExecuteLoop(_, _, _, _)
CanExecuteLoop(t, task_id, deps, i) ==
    IF i > Len(deps) THEN Ok("can_execute", task_id, TRUE)
    ELSE IF deps[i] \in DOMAIN t
         THEN IF t[deps[i]].state # "Completed"
              THEN Ok("can_execute", task_id, FALSE)
              ELSE CanExecuteLoop(t, task_id, deps, i + 1)
         ELSE Err("can_execute", task_id, "NotFound")

task_can_execute(task_id) ==
    /\ ret' = IF task_id \in DOMAIN tasks
              THEN CanExecuteLoop(tasks, task_id, tasks[task_id].dependencies, 1)
              ELSE Err("can_execute", task_id, "NotFound")
    /\ UNCHANGED <<tasks, tstats, completed_calls, completed_ever, guardVars, cacheVars, threadVars>>

(***************************************************************************)
(* RustTaskExecutor::get_result                                            *)
(***************************************************************************)
\* A variant that answers None for an identifier missing from the map.
get_resultMissingIsNone(task_id) ==
    /\ ret' = IF task_id \in DOMAIN tasks
              THEN Ok("get_result", task_id, tasks[task_id].result)
              ELSE Ok("get_result", task_id, None)
    /\ UNCHANGED <<tasks, tstats, completed_calls, completed_ever, guardVars, cacheVars, threadVars>>

get_result(task_id) ==
    /\ ret' = IF task_id \in DOMAIN tasks
              THEN Ok("get_result", task_id, tasks[task_id].result)
              ELSE Err("get_result", task_id, "NotFound")
    /\ UNCHANGED <<tasks, tstats, completed_calls, completed_ever, guardVars, cacheVars, threadVars>>

(***************************************************************************)
(* RustTaskExecutor::execute_concurrent_tasks                              *)
(* One spawned unit per entry, each giving back its own string; the        *)
(* handles are awaited in the order they were pushed, so the results are   *)
(* the entries in the order given. elapsed_ms is what the clock measured.  *)
(***************************************************************************)
RECURSIVE AwaitHandles(_, _, _)
AwaitHandles(handles, i, results) ==
    IF i > Len(handles) THEN results
    ELSE AwaitHandles(handles, i + 1, Append(results, handles[i]))

execute_concurrent_tasks(task_list, elapsed_ms) ==
    /\ tstats.total_execution_time_ms + elapsed_ms <= MaxTotalMs
    /\ tstats' = [tstats EXCEPT !.total_execution_time_ms = @ + elapsed_ms]
    /\ ret' = Ok("execute_concurrent_tasks", None, AwaitHandles(task_list, 1, <<>>))
    /\ UNCHANGED <<tasks, completed_calls, completed_ever, guardVars, cacheVars, threadVars>>

(***************************************************************************)
(* execute_concurrent_tasks step by step: the caller pushes one handle per *)
(* entry, each spawned unit runs on a worker of the runtime whenever the   *)
(* runtime schedules it, and the caller awaits the handles in the order it *)
(* pushed them.                                                            *)
(***************************************************************************)
concurrent_call(task_list) ==
    /\ conc.at = "idle"
    /\ conc.calls < MaxConcurrentCalls
    /\ conc' = [NoConcurrentCall EXCEPT
                    !.at = "run", !.tasks = task_list, !.calls = conc.calls + 1]
    /\ UNCHANGED <<mutex, thread, tret, thist, orch, taskVars, guardVars, cacheVars>>

\* tokio::spawn of the unit for the next entry, and the push of its handle.
spawn_unit ==
    /\ conc.at = "run"
    /\ conc.handles < Len(conc.tasks)
    /\ conc' = [conc EXCEPT !.handles = @ + 1]
    /\ UNCHANGED <<mutex, thread, tret, thist, orch, taskVars, guardVars, cacheVars>>

\* A worker runs a spawned unit to its end.
unit_run(i) ==
    /\ i \in 1..conc.handles
    /\ i \notin conc.finished
    /\ conc' = [conc EXCEPT !.finished = @ \cup {i}]
    /\ UNCHANGED <<mutex, thread, tret, thist, orch, taskVars, guardVars, cacheVars>>

\* A variant in which handle.await does not wait for the unit.
HandleReadyAlways(i) == TRUE

\* handle.await is over when the unit has run.
HandleReady(i) == i \in conc.finished

\* handle.await on the next handle, and the push of the string the unit
\* gave back: the entry it was spawned for.
await_handle ==
    LET i == Len(conc.results) + 1 IN
    /\ conc.at = "run"
    /\ conc.handles = Len(conc.tasks)
    /\ i <= conc.handles
    /\ HandleReady(i)
    /\ conc' = [conc EXCEPT !.results = Append(@, conc.tasks[i])]
    /\ UNCHANGED <<mutex, thread, tret, thist, orch, taskVars, guardVars, cacheVars>>

\* The statistics update and the return, once every handle was awaited.
concurrent_return(elapsed_ms) ==
    /\ conc.at = "run"
    /\ conc.handles = Len(conc.tasks)
    /\ Len(conc.results) = conc.handles
    /\ tstats.total_execution_time_ms + elapsed_ms <= MaxTotalMs
    /\ tstats' = [tstats EXCEPT !.total_execution_time_ms = @ + elapsed_ms]
    /\ ret' = Ok("execute_concurrent_tasks", None, conc.results)
    /\ conc' = [NoConcurrentCall EXCEPT !.calls = conc.calls]
    /\ UNCHANGED <<tasks, completed_calls, completed_ever>>
    /\ UNCHANGED <<mutex, thread, tret, thist, orch, guardVars, cacheVars>>

ConcurrentNext ==
    \/ \E l \in ExecLists : concurrent_call(l)
    \/ spawn_unit
    \/ \E i \in 1..MaxBatch : unit_run(i)
    \/ await_handle
    \/ \E ms \in 0..MaxElapsedMs : concurrent_return(ms)
    \/ register_task("A", <<>>)

SpecConcurrent == TaskInit /\ [][ConcurrentNext]_vars

\* The caller runs on, and the multi-thread runtime runs every spawned unit.
SpecConcurrentFair ==
    /\ SpecConcurrent
    /\ WF_vars(spawn_unit)
    /\ WF_vars(\E i \in 1..MaxBatch : unit_run(i))
    /\ WF_vars(await_handle)
    /\ WF_vars(\E ms \in 0..MaxElapsedMs : concurrent_return(ms))

(***************************************************************************)
(* RustTaskExecutor::get_execution_order (Kahn's algorithm)                *)
(***************************************************************************)
\* A variant that counts a task with dependencies once, however many it has.
InDegreeOncePerTask(t) ==
    [id \in DOMAIN t |-> IF t[id].dependencies = <<>> THEN 0 ELSE 1]

\* in_degree after the initialisation loop: one entry per task (never one
\* for a dependency identifier), incremented once per dependency entry.
InDegree(t) == [id \in DOMAIN t |-> Len(t[id].dependencies)]

\* adj_list.entry(k).or_insert_with(Vec::new).push(v)
AdjPush(adj, k, v) ==
    IF k \in DOMAIN adj THEN [adj EXCEPT ![k] = Append(@, v)]
    ELSE MapInsert(adj, k, <<v>>)

\* The loop over task.dependencies that pushes task_id on each one's list.
RECURSIVE AdjPushDeps(_, _, _, _)
AdjPushDeps(adj, task_id, deps, i) ==
    IF i > Len(deps) THEN adj
    ELSE AdjPushDeps(AdjPush(adj, deps[i], task_id), task_id, deps, i + 1)

\* adj_list after the initialisation loop over tasks.iter(), which yields
\* the keys in `order`.
RECURSIVE AdjList(_, _, _, _)
AdjList(t, order, i, adj) ==
    IF i > Len(order) THEN adj
    ELSE LET id == order[i]
             a1 == IF id \in DOMAIN adj THEN adj ELSE MapInsert(adj, id, <<>>)
         IN AdjList(t, order, i + 1, AdjPushDeps(a1, id, t[id].dependencies, 1))

\* The nodes with no incoming edge, in the order in_degree.iter() yields.
InitialQueue(in_degree, order) == SelectSeq(order, LAMBDA id : in_degree[id] = 0)

\* The loop over the neighbours of a popped node.
RECURSIVE Relax(_, _, _, _)
Relax(queue, in_degree, neighbors, i) ==
    IF i > Len(neighbors) THEN [queue |-> queue, in_degree |-> in_degree]
    ELSE LET n == neighbors[i] IN
         IF n \in DOMAIN in_degree
         THEN LET deg == in_degree[n] - 1 IN
              Relax(IF deg = 0 THEN Append(queue, n) ELSE queue,
                    [in_degree EXCEPT ![n] = deg], neighbors, i + 1)
         ELSE Relax(queue, in_degree, neighbors, i + 1)

\* while let Some(node) = queue.pop()
RECURSIVE KahnLoop(_, _, _, _)
KahnLoop(queue, in_degree, adj, result) ==
    IF queue = <<>> THEN result
    ELSE LET node == queue[Len(queue)]
             rest == SubSeq(queue, 1, Len(queue) - 1)
             r == IF node \in DOMAIN adj
                  THEN Relax(rest, in_degree, adj[node], 1)
                  ELSE [queue |-> rest, in_degree |-> in_degree]
         IN KahnLoop(r.queue, r.in_degree, adj, Append(result, node))

\* A variant that returns the loop's output without the check.
CycleCheckOmitted(result, t) == Ok("get_execution_order", None, result)

\* The check for cycles on the loop's output.
CycleCheck(result, t) ==
    IF Len(result) # Cardinality(DOMAIN t)
    THEN Err("get_execution_order", None, "CycleDetected")
    ELSE Ok("get_execution_order", None, result)

\* The value returned when tasks.iter() yields the keys in order1 and
\* in_degree.iter() yields them in order2.
ExecutionOrder(t, order1, order2) ==
    LET in_degree == InDegree(t)
        adj == AdjList(t, order1, 1, <<>>)
    IN CycleCheck(KahnLoop(InitialQueue(in_degree, order2), in_degree, adj, <<>>), t)

get_execution_order ==
    /\ \E order1, order2 \in IterOrders(DOMAIN tasks) :
           ret' = ExecutionOrder(tasks, order1, order2)
    /\ UNCHANGED <<tasks, tstats, completed_calls, completed_ever, guardVars, cacheVars, threadVars>>

TaskNext ==
    \/ \E id \in TaskIds, deps \in DepLists : register_task(id, deps)
    \/ \E id \in TaskIds : mark_started(id)
    \/ \E id \in TaskIds, r \in Results : mark_completed(id, r)
    \/ \E id \in TaskIds, e \in Errors : mark_failed(id, e)
    \/ clear
    \/ get_ready_tasks

Spec == TaskInit /\ [][TaskNext]_vars

(***************************************************************************)
(* The life of two tasks A and B under every RustTaskExecutor operation,   *)
(* the queries can_execute and get_result included. C is an identifier     *)
(* that appears in dependency lists and is never registered.               *)
(***************************************************************************)
LifeIds == {"A", "B"}
LifeDepLists == {<<>>, <<"A">>, <<"A", "C">>, <<"C", "A">>}

LifecycleNext ==
    \/ \E id \in LifeIds, deps \in LifeDepLists : register_task(id, deps)
    \/ \E id \in LifeIds : mark_started(id)
    \/ \E id \in LifeIds, r \in Results : mark_completed(id, r)
    \/ \E id \in LifeIds, e \in Errors : mark_failed(id, e)
    \/ clear
    \/ get_ready_tasks
    \/ \E id \in LifeIds : task_can_execute(id)
    \/ \E id \in LifeIds : get_result(id)

SpecLifecycle == TaskInit /\ [][LifecycleNext]_vars

(***************************************************************************)
(* RustToolExecutor: the recursion-depth guard under concurrent callers.   *)
(* A caller issues a call (pc leaves "idle") and then takes its steps; the *)
(* steps of one call between two lock operations are one action.           *)
(***************************************************************************)
GRet(c, op, ok, val) == [caller |-> c, op |-> op, ok |-> ok, val |-> val]

Issue(c, at, tool_name, args) ==
    /\ pc[c].at = "idle"
    /\ ghist.calls < MaxCalls
    /\ pc' = [pc EXCEPT ![c] = [at |-> at, tool_name |-> tool_name, args |-> args]]
    /\ ghist' = [ghist EXCEPT !.calls = @ + 1]
    /\ UNCHANGED <<max_recursion_depth, execution_count, count_lock, gstats, gret>>
    /\ UNCHANGED <<taskVars, cacheVars, threadVars>>

Return(c, op, ok, val) ==
    /\ pc' = [pc EXCEPT ![c] = NoCall]
    /\ gret' = GRet(c, op, ok, val)

\* A variant in which the execution_count Mutex excludes no one.
CountLockIgnored(c) == TRUE

\* self.execution_count.lock() returns once no other caller holds the Mutex.
CountLockFree(c) == count_lock = None

\* A variant that admits one execution too many.
BeginAdmitsAtBound(count, depth) == ~(count > depth)

\* begin_execution goes on when the count is below the maximum.
BeginAdmits(count, depth) == ~(count >= depth)

\* A variant that decrements whatever the count is.
EndCountUnguarded(count) == count - 1

\* The count end_execution leaves.
EndCount(count) == IF count > 0 THEN count - 1 ELSE count

\* format!("{}:{}", tool_name, args.len())
ExecutionId(tool_name, args) == <<tool_name, ":", Len(args)>>

(***************************************************************************)
(* RustToolExecutor::begin_execution                                       *)
(***************************************************************************)
begin_call(c, tool_name, args) == Issue(c, "begin", tool_name, args)

\* let mut count = self.execution_count.lock()
begin_lock(c) ==
    /\ pc[c].at = "begin"
    /\ CountLockFree(c)
    /\ count_lock' = c
    /\ pc' = [pc EXCEPT ![c].at = "begin_check"]
    /\ UNCHANGED <<max_recursion_depth, execution_count, gstats, gret, ghist>>
    /\ UNCHANGED <<taskVars, cacheVars, threadVars>>

\* if *count >= self.max_recursion_depth { return Err(..) }
begin_check(c) ==
    /\ pc[c].at = "begin_check"
    /\ IF BeginAdmits(execution_count, max_recursion_depth)
       THEN /\ pc' = [pc EXCEPT ![c].at = "begin_incr"]
            /\ ghist' = [ghist EXCEPT
                            !.ok_begins = @ + 1,
                            !.begin_after_end = @ \/ ghist.ends > 0,
                            !.overlapped = @ \/ \E d \in Callers \ {c} : pc[d].at = "begin"]
            /\ UNCHANGED <<count_lock, gret>>
       ELSE /\ Return(c, "begin_execution", FALSE, "DepthExceeded")
            /\ count_lock' = IF count_lock = c THEN None ELSE count_lock
            /\ ghist' = [ghist EXCEPT
                            !.fail_begins = @ + 1,
                            !.begin_after_end = @ \/ ghist.ends > 0,
                            !.overlapped = @ \/ \E d \in Callers \ {c} : pc[d].at = "begin"]
    /\ UNCHANGED <<max_recursion_depth, execution_count, gstats>>
    /\ UNCHANGED <<taskVars, cacheVars, threadVars>>

\* *count += 1
begin_incr(c) ==
    /\ pc[c].at = "begin_incr"
    /\ execution_count' = execution_count + 1
    /\ pc' = [pc EXCEPT ![c].at = "begin_stats"]
    /\ UNCHANGED <<max_recursion_depth, count_lock, gstats, gret, ghist>>
    /\ UNCHANGED <<taskVars, cacheVars, threadVars>>

\* stats.total_executions += 1; Ok(execution id); both guards dropped
begin_stats(c) ==
    /\ pc[c].at = "begin_stats"
    /\ gstats' = [gstats EXCEPT !.total_executions = @ + 1]
    /\ count_lock' = IF count_lock = c THEN None ELSE count_lock
    /\ Return(c, "begin_execution", TRUE, ExecutionId(pc[c].tool_name, pc[c].args))
    /\ UNCHANGED <<max_recursion_depth, execution_count, ghist>>
    /\ UNCHANGED <<taskVars, cacheVars, threadVars>>

(***************************************************************************)
(* RustToolExecutor::end_execution                                         *)
(***************************************************************************)
end_call(c) == Issue(c, "end", None, None)

\* lock; if *count > 0 { *count -= 1 }; Ok(()); guard dropped
end_execution(c) ==
    /\ pc[c].at = "end"
    /\ CountLockFree(c)
    /\ execution_count' = EndCount(execution_count)
    /\ Return(c, "end_execution", TRUE, None)
    /\ ghist' = [ghist EXCEPT !.ends = @ + 1]
    /\ UNCHANGED <<max_recursion_depth, count_lock, gstats>>
    /\ UNCHANGED <<taskVars, cacheVars, threadVars>>

(***************************************************************************)
(* RustToolExecutor::validate_args                                         *)
(* serde_json::from_str::<Value> on the payload, for JSON made of objects, *)
(* arrays, strings without escapes, one-digit numbers and blanks. Each     *)
(* Parse operator takes the position to read at and gives the position     *)
(* after what it read, or 0 when the text is not what it expects.          *)
(***************************************************************************)
Digits == {"0", "1", "2", "3", "4", "5", "6", "7", "8", "9"}

At(s, i) == IF i >= 1 /\ i <= Len(s) THEN s[i] ELSE "EOF"

RECURSIVE SkipWs(_, _)
SkipWs(s, i) == IF At(s, i) = " " THEN SkipWs(s, i + 1) ELSE i

\* After the opening quote: up to and over the closing quote.
RECURSIVE ParseStringRest(_, _)
ParseStringRest(s, i) ==
    IF At(s, i) = "EOF" THEN 0
    ELSE IF At(s, i) = "\"" THEN i + 1
    ELSE ParseStringRest(s, i + 1)

RECURSIVE ParseValue(_, _)
RECURSIVE ParseElements(_, _)
RECURSIVE ParseMembers(_, _)

\* One value at position i.
ParseValue(s, i) ==
    CASE At(s, i) \in Digits -> i + 1
      [] At(s, i) = "\"" -> ParseStringRest(s, i + 1)
      [] At(s, i) = "[" ->
            (IF At(s, SkipWs(s, i + 1)) = "]" THEN SkipWs(s, i + 1) + 1
             ELSE ParseElements(s, SkipWs(s, i + 1)))
      [] At(s, i) = "{" ->
            (IF At(s, SkipWs(s, i + 1)) = "}" THEN SkipWs(s, i + 1) + 1
             ELSE ParseMembers(s, SkipWs(s, i + 1)))
      [] OTHER -> 0

\* value ("," value)* "]" : the elements of a non-empty array and its end.
ParseElements(s, i) ==
    LET j == ParseValue(s, i) IN
    IF j = 0 THEN 0
    ELSE LET k == SkipWs(s, j) IN
         IF At(s, k) = "]" THEN k + 1
         ELSE IF At(s, k) = "," THEN ParseElements(s, SkipWs(s, k + 1))
         ELSE 0

\* string ":" value ("," string ":" value)* "}" : the members of a non-empty
\* object and its end.
ParseMembers(s, i) ==
    IF At(s, i) # "\"" THEN 0
    ELSE LET j == ParseStringRest(s, i + 1) IN
         IF j = 0 THEN 0
         ELSE LET k == SkipWs(s, j) IN
              IF At(s, k) # ":" THEN 0
              ELSE LET v == ParseValue(s, SkipWs(s, k + 1)) IN
                   IF v = 0 THEN 0
                   ELSE LET e == SkipWs(s, v) IN
                        IF At(s, e) = "}" THEN e + 1
                        ELSE IF At(s, e) = "," THEN ParseMembers(s, SkipWs(s, e + 1))
                        ELSE 0

\* from_str succeeds: one value, blanks around it allowed, and nothing else.
IsJson(s) ==
    LET j == ParseValue(s, SkipWs(s, 1)) IN
    j # 0 /\ SkipWs(s, j) = Len(s) + 1

\* A variant that counts a failure for every payload.
ValidationCountAlways(stats, ok) == [stats EXCEPT !.validation_failures = @ + 1]

\* stats.validation_failures += 1 in the Err arm only.
ValidationCount(stats, ok) ==
    IF ok THEN stats ELSE [stats EXCEPT !.validation_failures = @ + 1]

validate_call(c, args_json) == Issue(c, "validate", None, args_json)

\* The match on from_str's result: no lock but the stats lock, in the Err arm.
validate_args(c) ==
    /\ pc[c].at = "validate"
    /\ gstats' = ValidationCount(gstats, IsJson(pc[c].args))
    /\ IF IsJson(pc[c].args)
       THEN Return(c, "validate_args", TRUE, TRUE)
       ELSE Return(c, "validate_args", FALSE, "Malformed")
    /\ UNCHANGED <<max_recursion_depth, execution_count, count_lock, ghist>>
    /\ UNCHANGED <<taskVars, cacheVars, threadVars>>

(***************************************************************************)
(* RustToolExecutor::parse_args                                            *)
(* from_str into a serde_json::Value, then to_string of the Value. An      *)
(* object is a map ordered by key, in which a repeated key keeps its last  *)
(* value; to_string writes no blanks. The Canon operators read a JSON text *)
(* at a position and give what to_string writes for the value there.       *)
(***************************************************************************)
\* The characters of the payloads, in byte order.
Chars ==
    <<" ", "\"", ",", "0", "1", "2", "3", "4", "5", "6", "7", "8", "9", ":",
      "[", "]", "a", "b", "{", "}">>

Rank(ch) == CHOOSE i \in 1..Len(Chars) : Chars[i] = ch

\* String order: byte by byte, a proper prefix first.
RECURSIVE KeyLess(_, _)
KeyLess(a, b) ==
    IF a = <<>> THEN b # <<>>
    ELSE IF b = <<>> THEN FALSE
    ELSE IF Head(a) = Head(b) THEN KeyLess(Tail(a), Tail(b))
    ELSE Rank(Head(a)) < Rank(Head(b))

RECURSIVE SortedKeys(_)
SortedKeys(S) ==
    IF S = {} THEN <<>>
    ELSE LET least == CHOOSE k \in S : \A other \in S \ {k} : KeyLess(k, other)
         IN <<least>> \o SortedKeys(S \ {least})

\* A variant that keeps the members as they were read.
MapOrderAsRead(members) == members

\* The members as the map holds them: one per key, with the value read
\* last for it, in key order.
MapOrder(members) ==
    LET keys == SortedKeys({members[i].key : i \in 1..Len(members)})
        last(k) == CHOOSE i \in 1..Len(members) :
                        /\ members[i].key = k
                        /\ \A j \in (i + 1)..Len(members) : members[j].key # k
    IN [n \in 1..Len(keys) |-> members[last(keys[n])]]

RECURSIVE CanonValue(_, _)
RECURSIVE CanonElements(_, _, _)
RECURSIVE CanonMembers(_, _, _)
RECURSIVE WriteElements(_, _)
RECURSIVE WriteMembers(_, _)

\* "," between the elements.
WriteElements(elements, i) ==
    IF i > Len(elements) THEN <<>>
    ELSE (IF i > 1 THEN <<",">> ELSE <<>>) \o elements[i] \o WriteElements(elements, i + 1)

\* "key":value with "," between the members.
WriteMembers(members, i) ==
    IF i > Len(members) THEN <<>>
    ELSE (IF i > 1 THEN <<",">> ELSE <<>>)
            \o <<"\"">> \o members[i].key \o <<"\"", ":">> \o members[i].value
            \o WriteMembers(members, i + 1)

CanonValue(s, i) ==
    CASE At(s, i) \in Digits -> <<s[i]>>
      [] At(s, i) = "\"" -> SubSeq(s, i, ParseStringRest(s, i + 1) - 1)
      [] At(s, i) = "[" ->
            <<"[">> \o WriteElements(CanonElements(s, SkipWs(s, i + 1), <<>>), 1) \o <<"]">>
      [] At(s, i) = "{" ->
            <<"{">> \o WriteMembers(MapOrder(CanonMembers(s, SkipWs(s, i + 1), <<>>)), 1)
                   \o <<"}">>

\* The elements of the array whose first element, or "]", is at position i.
CanonElements(s, i, read) ==
    IF At(s, i) = "]" THEN read
    ELSE LET next == SkipWs(s, ParseValue(s, i))
             all == Append(read, CanonValue(s, i))
         IN IF At(s, next) = "," THEN CanonElements(s, SkipWs(s, next + 1), all)
            ELSE all

\* The members of the object whose first key, or "}", is at position i.
CanonMembers(s, i, read) ==
    IF At(s, i) = "}" THEN read
    ELSE LET after_key == ParseStringRest(s, i + 1)
             value_at == SkipWs(s, SkipWs(s, after_key) + 1)
             next == SkipWs(s, ParseValue(s, value_at))
             all == Append(read, [key |-> SubSeq(s, i + 1, after_key - 2),
                                  value |-> CanonValue(s, value_at)])
         IN IF At(s, next) = "," THEN CanonMembers(s, SkipWs(s, next + 1), all)
            ELSE all

\* What parse_args returns for a payload.
ParseArgs(c, args_json) ==
    IF IsJson(args_json)
    THEN GRet(c, "parse_args", TRUE, CanonValue(args_json, SkipWs(args_json, 1)))
    ELSE GRet(c, "parse_args", FALSE, "Malformed")

parse_call(c, args_json) == Issue(c, "parse", None, args_json)

\* The call takes no lock and writes no field.
parse_args(c) ==
    /\ pc[c].at = "parse"
    /\ pc' = [pc EXCEPT ![c] = NoCall]
    /\ gret' = ParseArgs(c, pc[c].args)
    /\ UNCHANGED <<max_recursion_depth, execution_count, count_lock, gstats, ghist>>
    /\ UNCHANGED <<taskVars, cacheVars, threadVars>>

(***************************************************************************)
(* RustToolExecutor::batch_validate                                        *)
(***************************************************************************)
\* A variant that stops at the first payload that does not parse.
RECURSIVE BatchMapStopsAtError(_, _, _)
BatchMapStopsAtError(args_list, i, out) ==
    IF i > Len(args_list) THEN out
    ELSE IF IsJson(args_list[i])
         THEN BatchMapStopsAtError(args_list, i + 1, Append(out, TRUE))
         ELSE Append(out, FALSE)

\* args_list.iter().map(|args| from_str(args).map(|_| true).unwrap_or(false))
RECURSIVE BatchMap(_, _, _)
BatchMap(args_list, i, out) ==
    IF i > Len(args_list) THEN out
    ELSE BatchMap(args_list, i + 1, Append(out, IsJson(args_list[i])))

batch_call(c, args_list) == Issue(c, "batch", None, args_list)

\* The call takes no lock and writes no field.
batch_validate(c) ==
    /\ pc[c].at = "batch"
    /\ Return(c, "batch_validate", TRUE, BatchMap(pc[c].args, 1, <<>>))
    /\ UNCHANGED <<max_recursion_depth, execution_count, count_lock, gstats, ghist>>
    /\ UNCHANGED <<taskVars, cacheVars, threadVars>>

(***************************************************************************)
(* RustToolExecutor::can_execute                                           *)
(***************************************************************************)
can_call(c) == Issue(c, "can_execute", None, None)

\* lock; Ok(*count < self.max_recursion_depth); guard dropped
can_execute(c) ==
    /\ pc[c].at = "can_execute"
    /\ CountLockFree(c)
    /\ Return(c, "can_execute", TRUE, execution_count < max_recursion_depth)
    /\ UNCHANGED <<max_recursion_depth, execution_count, count_lock, gstats, ghist>>
    /\ UNCHANGED <<taskVars, cacheVars, threadVars>>

GuardInit ==
    /\ NewTaskExecutor
    /\ \E depth \in 0..MaxDepth : NewGuard(depth, DefaultTtl)

GuardNext ==
    \E c \in Callers :
        \/ \E a \in ArgStrs : begin_call(c, <<"t">>, a)
        \/ begin_lock(c)
        \/ begin_check(c)
        \/ begin_incr(c)
        \/ begin_stats(c)
        \/ end_call(c)
        \/ end_execution(c)
        \/ can_call(c)
        \/ can_execute(c)

SpecGuard == GuardInit /\ [][GuardNext]_vars

(***************************************************************************)
(* The operations on argument payloads, from two callers.                  *)
(***************************************************************************)
ValidateCallers == {"c1", "c2"}

ValidateNext ==
    \E c \in ValidateCallers :
        \/ \E p \in Payloads : validate_call(c, p)
        \/ validate_args(c)
        \/ \E l \in BatchLists : batch_call(c, l)
        \/ batch_validate(c)

SpecValidate == TaskInit /\ [][ValidateNext]_vars

\* Callers that hand payloads to parse_args.
ParseNext ==
    \E c \in ValidateCallers :
        \/ \E p \in Payloads \cup KeyOrderPayloads : parse_call(c, p)
        \/ parse_args(c)

SpecParse == TaskInit /\ [][ParseNext]_vars

(***************************************************************************)
(* RustToolExecutor: the result cache. Each call holds the result_cache    *)
(* Mutex from its first access to its return, so a call is one action.     *)
(***************************************************************************)
CRet(op, tool_name, args, val) ==
    [op |-> op, tool_name |-> tool_name, args |-> args, val |-> val, at |-> now]

\* format!("{}:{}", tool_name, args)
CacheKey(tool_name, args) == tool_name \o <<":">> \o args

\* Duration::as_secs of a number of ticks: whole seconds, rounded down.
AsSecs(ticks) == ticks \div TicksPerSec

\* A variant that also takes an entry exactly ttl seconds old.
FreshInclusive(elapsed, ttl) == AsSecs(elapsed) <= ttl

\* cached.timestamp.elapsed().as_secs() < self.cache_ttl_secs
Fresh(elapsed, ttl) == AsSecs(elapsed) < ttl

\* A variant that stores the entry without a new timestamp when the key is
\* already in the map.
CachedResultKeepsTime(cache, key, result) ==
    [result |-> result,
     timestamp |-> IF key \in DOMAIN cache THEN cache[key].timestamp ELSE now]

\* CachedResult { result, timestamp: Instant::now() }
CachedResult(cache, key, result) == [result |-> result, timestamp |-> now]

(***************************************************************************)
(* RustToolExecutor::get_cached                                            *)
(***************************************************************************)
\* A variant that counts the hits and lets the misses go uncounted.
CountLookupHitsOnly(stats, hit) ==
    IF hit THEN [stats EXCEPT !.cache_hits = @ + 1] ELSE stats

\* stats.cache_hits += 1 on the hit path, stats.cache_misses += 1 on the other.
CountLookup(stats, hit) ==
    IF hit THEN [stats EXCEPT !.cache_hits = @ + 1]
           ELSE [stats EXCEPT !.cache_misses = @ + 1]

get_cached(tool_name, args) ==
    LET cache_key == CacheKey(tool_name, args) IN
    /\ chist.gets < MaxLookups
    /\ IF /\ cache_key \in DOMAIN result_cache
          /\ Fresh(now - result_cache[cache_key].timestamp, cache_ttl_secs)
       THEN /\ gstats' = CountLookup(gstats, TRUE)
            /\ cret' = CRet("get_cached", tool_name, args, result_cache[cache_key].result)
            /\ chist' = [chist EXCEPT !.gets = @ + 1]
       ELSE /\ gstats' = CountLookup(gstats, FALSE)
            /\ cret' = CRet("get_cached", tool_name, args, None)
            /\ chist' = [chist EXCEPT
                            !.gets = @ + 1,
                            !.expired = IF cache_key \in DOMAIN result_cache
                                        THEN @ \cup {cache_key} ELSE @]
    /\ UNCHANGED <<cache_ttl_secs, result_cache, now>>
    /\ UNCHANGED <<max_recursion_depth, execution_count, count_lock, pc, gret, ghist>>
    /\ UNCHANGED <<taskVars, threadVars>>

(***************************************************************************)
(* RustToolExecutor::cache_result                                          *)
(***************************************************************************)
cache_result(tool_name, args, result) ==
    LET cache_key == CacheKey(tool_name, args) IN
    /\ chist.puts < MaxPuts
    /\ result_cache' = MapInsert(result_cache, cache_key,
                                   CachedResult(result_cache, cache_key, result))
    /\ cret' = CRet("cache_result", tool_name, args, result)
    /\ chist' = [chist EXCEPT
                    !.puts = @ + 1,
                    !.last_put = MapInsert(@, <<tool_name, args>>, result),
                    !.put_keys = @ \cup {cache_key}]
    /\ UNCHANGED <<cache_ttl_secs, now>>
    /\ UNCHANGED <<guardVars, taskVars, threadVars>>

(***************************************************************************)
(* RustToolExecutor::clear_cache                                           *)
(***************************************************************************)
\* A variant that counts only the entries a lookup would still return.
ClearCountFresh(cache) ==
    Cardinality({k \in DOMAIN cache : Fresh(now - cache[k].timestamp, cache_ttl_secs)})

\* cache.len()
ClearCount(cache) == Cardinality(DOMAIN cache)

clear_cache ==
    /\ result_cache' = <<>>
    /\ cret' = CRet("clear_cache", None, None, ClearCount(result_cache))
    /\ chist' = [chist EXCEPT !.put_keys = {}]
    /\ UNCHANGED <<cache_ttl_secs, now>>
    /\ UNCHANGED <<guardVars, taskVars, threadVars>>

\* Time passes.
Tick ==
    /\ now < MaxTime
    /\ now' = now + 1
    /\ UNCHANGED <<cache_ttl_secs, result_cache, cret, chist>>
    /\ UNCHANGED <<guardVars, taskVars, threadVars>>

CacheInit ==
    /\ NewTaskExecutor
    /\ \E ttl \in 0..MaxTtl : NewGuard(1, ttl)

CacheNext ==
    \/ \E n \in Names, a \in ArgStrs : get_cached(n, a)
    \/ \E n \in Names, a \in ArgStrs, r \in CacheResults : cache_result(n, a, r)
    \/ clear_cache
    \/ Tick

SpecCache == CacheInit /\ [][CacheNext]_vars

(***************************************************************************)
(* Every operation that writes a statistics counter, and clear. The two    *)
(* executors are separate objects that share no state, so a run exercises  *)
(* one of them: the RustTaskExecutor with one task, or the                 *)
(* RustToolExecutor with one caller, one tool and one argument string.     *)
(***************************************************************************)
TaskExecutorUnused == ret.op = "new"

ToolExecutorUnused == gret.op = "new" /\ cret.op = "new" /\ ghist.calls = 0

StatsNext ==
    \/ ToolExecutorUnused /\ register_task("A", <<>>)
    \/ ToolExecutorUnused /\ mark_started("A")
    \/ ToolExecutorUnused /\ mark_completed("A", "r1")
    \/ ToolExecutorUnused /\ mark_failed("A", "e1")
    \/ ToolExecutorUnused /\ clear
    \/ ToolExecutorUnused /\ \E l \in ExecLists, ms \in 0..MaxElapsedMs :
                                execute_concurrent_tasks(l, ms)
    \/ TaskExecutorUnused /\ begin_call("c1", <<"t">>, <<"x">>)
    \/ TaskExecutorUnused /\ begin_lock("c1")
    \/ TaskExecutorUnused /\ begin_check("c1")
    \/ TaskExecutorUnused /\ begin_incr("c1")
    \/ TaskExecutorUnused /\ begin_stats("c1")
    \/ TaskExecutorUnused /\ end_call("c1")
    \/ TaskExecutorUnused /\ end_execution("c1")
    \/ TaskExecutorUnused /\ \E p \in Payloads : validate_call("c1", p)
    \/ TaskExecutorUnused /\ validate_args("c1")
    \/ TaskExecutorUnused /\ get_cached(<<"t">>, <<"x">>)
    \/ TaskExecutorUnused /\ cache_result(<<"t">>, <<"x">>, "r1")
    \/ TaskExecutorUnused /\ clear_cache

SpecStats == TaskInit /\ [][StatsNext]_vars

(***************************************************************************)
(* RustToolExecutor::get_stats and RustTaskExecutor::get_stats             *)
(***************************************************************************)
\* The map get_stats of the RustToolExecutor builds: the four counters, and
\* the hit rate when a lookup was counted.
ToolStatsMap(stats) ==
    LET total_cache_lookups == stats.cache_hits + stats.cache_misses IN
    IF total_cache_lookups > 0
    THEN [total_executions |-> stats.total_executions,
          cache_hits |-> stats.cache_hits,
          cache_misses |-> stats.cache_misses,
          validation_failures |-> stats.validation_failures,
          cache_hit_rate_percent |-> (stats.cache_hits * 100) \div total_cache_lookups]
    ELSE [total_executions |-> stats.total_executions,
          cache_hits |-> stats.cache_hits,
          cache_misses |-> stats.cache_misses,
          validation_failures |-> stats.validation_failures]

stats_call(c) == Issue(c, "get_stats", None, None)

tool_get_stats(c) ==
    /\ pc[c].at = "get_stats"
    /\ Return(c, "get_stats", TRUE, ToolStatsMap(gstats))
    /\ UNCHANGED <<max_recursion_depth, execution_count, count_lock, gstats, ghist>>
    /\ UNCHANGED <<taskVars, cacheVars, threadVars>>

\* A variant that hands out the counters and starts them again at zero.
task_get_statsResets ==
    /\ ret' = Ok("get_stats", None, tstats)
    /\ tstats' = [tasks_scheduled |-> 0, tasks_completed |-> 0, tasks_failed |-> 0,
                  total_execution_time_ms |-> 0]
    /\ UNCHANGED <<tasks, completed_calls, completed_ever, guardVars, cacheVars, threadVars>>

\* The map get_stats of the RustTaskExecutor builds holds the four counters.
task_get_stats ==
    /\ ret' = Ok("get_stats", None, tstats)
    /\ UNCHANGED <<tasks, tstats, completed_calls, completed_ever, guardVars, cacheVars, threadVars>>

(***************************************************************************)
(* The queries of the two executors, after the operations that change what *)
(* they read. A run exercises one executor, as in StatsNext.               *)
(***************************************************************************)
QueryDepLists == {<<>>, <<"A">>, <<"C">>}

QueryNext ==
    \/ ToolExecutorUnused /\ \E id \in LifeIds, deps \in QueryDepLists :
                                register_task(id, deps)
    \/ ToolExecutorUnused /\ \E id \in LifeIds : mark_started(id)
    \/ ToolExecutorUnused /\ \E id \in LifeIds : mark_completed(id, "r1")
    \/ ToolExecutorUnused /\ \E id \in LifeIds : mark_failed(id, "e1")
    \/ ToolExecutorUnused /\ \E id \in LifeIds : task_can_execute(id)
    \/ ToolExecutorUnused /\ get_ready_tasks
    \/ ToolExecutorUnused /\ \E id \in LifeIds : get_result(id)
    \/ ToolExecutorUnused /\ get_execution_order
    \/ ToolExecutorUnused /\ task_get_stats
    \/ TaskExecutorUnused /\ begin_call("c1", <<"t">>, <<"x">>)
    \/ TaskExecutorUnused /\ begin_lock("c1")
    \/ TaskExecutorUnused /\ begin_check("c1")
    \/ TaskExecutorUnused /\ begin_incr("c1")
    \/ TaskExecutorUnused /\ begin_stats("c1")
    \/ TaskExecutorUnused /\ end_call("c1")
    \/ TaskExecutorUnused /\ end_execution("c1")
    \/ TaskExecutorUnused /\ get_cached(<<"t">>, <<"x">>)
    \/ TaskExecutorUnused /\ cache_result(<<"t">>, <<"x">>, "r1")
    \/ TaskExecutorUnused /\ \E c \in ValidateCallers : can_call(c)
    \/ TaskExecutorUnused /\ \E c \in ValidateCallers : can_execute(c)
    \/ TaskExecutorUnused /\ \E c \in ValidateCallers : stats_call(c)
    \/ TaskExecutorUnused /\ \E c \in ValidateCallers : tool_get_stats(c)

SpecQueries == TaskInit /\ [][QueryNext]_vars

(***************************************************************************)
(* Every operation that changes the task map, the in-flight count or one   *)
(* of the counters that count them. A run exercises one executor, as in    *)
(* StatsNext: the RustTaskExecutor with two tasks, or the RustToolExecutor *)
(* with two callers.                                                       *)
(***************************************************************************)
TelemetryNext ==
    \/ ToolExecutorUnused /\ \E id \in LifeIds, deps \in QueryDepLists :
                                register_task(id, deps)
    \/ ToolExecutorUnused /\ \E id \in LifeIds : mark_started(id)
    \/ ToolExecutorUnused /\ \E id \in LifeIds : mark_completed(id, "r1")
    \/ ToolExecutorUnused /\ \E id \in LifeIds : mark_failed(id, "e1")
    \/ ToolExecutorUnused /\ clear
    \/ TaskExecutorUnused /\ \E c \in ValidateCallers : begin_call(c, <<"t">>, <<"x">>)
    \/ TaskExecutorUnused /\ \E c \in ValidateCallers : begin_lock(c)
    \/ TaskExecutorUnused /\ \E c \in ValidateCallers : begin_check(c)
    \/ TaskExecutorUnused /\ \E c \in ValidateCallers : begin_incr(c)
    \/ TaskExecutorUnused /\ \E c \in ValidateCallers : begin_stats(c)
    \/ TaskExecutorUnused /\ \E c \in ValidateCallers : end_call(c)
    \/ TaskExecutorUnused /\ \E c \in ValidateCallers : end_execution(c)

TelemetryInit ==
    /\ NewTaskExecutor
    /\ NewGuard(MaxDepth, DefaultTtl)

SpecTelemetry == TelemetryInit /\ [][TelemetryNext]_vars

(***************************************************************************)
(* The ordering query on its own: every dependency graph that register_task *)
(* calls on a new executor can build (no task started yet), then            *)
(* get_execution_order.                                                     *)
(***************************************************************************)
OrderDepLists == UNION {[1..n -> TaskIds] : n \in 0..MaxDeps}

Graphs ==
    UNION {[S -> {TaskInfo(d, "Pending", None, None) : d \in OrderDepLists}] :
           S \in SUBSET TaskIds}

OrderInit ==
    /\ GuardIdle
    /\ tasks \in Graphs
    /\ tstats = [tasks_scheduled |-> Cardinality(DOMAIN tasks),
                 tasks_completed |-> 0, tasks_failed |-> 0,
                 total_execution_time_ms |-> 0]
    /\ ret = Ok("register_task", None, None)
    /\ completed_calls = {}
    /\ completed_ever = {}

OrderNext == get_execution_order

SpecOrder == OrderInit /\ [][OrderNext]_vars

(***************************************************************************)
(* Threads inside the operations that take two guards. A thread blocks in  *)
(* Mutex::lock until the guard is free; what it does to the data a Mutex   *)
(* protects happens while it holds the guard; every guard it holds is      *)
(* dropped when the call returns. A counter is incremented by loading it   *)
(* and storing the sum.                                                    *)
(***************************************************************************)
\* A variant in which mark_completed takes the stats guard first.
LocksStatsFirstOnComplete(op) ==
    CASE op = "mark_completed" -> <<"task_stats", "tasks">>
      [] op \in {"register_task", "mark_failed"} -> <<"tasks", "task_stats">>
      [] op = "begin_execution" -> <<"execution_count", "tool_stats">>
      [] op = "get_cached" -> <<"result_cache", "tool_stats">>

\* The Mutexes an operation locks, in the order of its lock() calls.
Locks(op) ==
    CASE op \in {"register_task", "mark_completed", "mark_failed"} ->
            <<"tasks", "task_stats">>
      [] op = "begin_execution" -> <<"execution_count", "tool_stats">>
      [] op = "get_cached" -> <<"result_cache", "tool_stats">>

\* A variant in which lock() returns a guard whoever holds one.
MutexIgnored(m) == TRUE

\* lock() returns when no guard of the Mutex is alive.
MutexFree(m) == mutex[m] = None

\* The guards of a thread are dropped.
Unlocked(t) == [m \in Mutexes |-> IF mutex[m] = t THEN None ELSE mutex[m]]

\* The counter an operation increments.
Counter(op, hit) ==
    CASE op = "register_task" -> tstats.tasks_scheduled
      [] op = "mark_completed" -> tstats.tasks_completed
      [] op = "mark_failed" -> tstats.tasks_failed
      [] op = "begin_execution" -> gstats.total_executions
      [] op = "get_cached" -> IF hit THEN gstats.cache_hits ELSE gstats.cache_misses

thread_call(t, op, arg) ==
    /\ thread[t].at = "idle"
    /\ thist.calls < MaxThreadCalls
    /\ thread' = [thread EXCEPT ![t] = [NoThreadCall EXCEPT
                        !.op = op, !.arg = arg, !.at = "lock", !.next = 1]]
    /\ thist' = [thist EXCEPT !.calls = @ + 1]
    /\ UNCHANGED <<mutex, tret, conc, orch, taskVars, guardVars, cacheVars>>

\* The thread goes on to its next lock(), or to the counter once it holds
\* both guards.
ThreadOn(t, hit) ==
    [thread EXCEPT ![t].next = @ + 1,
                   ![t].hit = hit,
                   ![t].at = IF thread[t].next = Len(Locks(thread[t].op))
                             THEN "store" ELSE "lock"]

\* The call returns an error: its guards are dropped.
ThreadFails(t) ==
    /\ thread' = [thread EXCEPT ![t] = NoThreadCall]
    /\ mutex' = Unlocked(t)
    /\ tret' = [thread |-> t, op |-> thread[t].op, ok |-> FALSE]

\* lock() on the Mutex of the data, and what the operation does to the data.
lock_data(t) ==
    LET op == thread[t].op
        arg == thread[t].arg
        m == Locks(op)[thread[t].next]
        held == [mutex EXCEPT ![m] = t]
    IN
    /\ thread[t].at = "lock"
    /\ m \notin StatsMutexes
    /\ MutexFree(m)
    /\ CASE op = "register_task" ->
              /\ tasks' = MapInsert(tasks, arg, TaskInfo(<<>>, "Pending", None, None))
              /\ thread' = ThreadOn(t, FALSE)
              /\ mutex' = held
              /\ UNCHANGED <<execution_count, tret>>
         [] op = "mark_completed" ->
              IF arg \in DOMAIN tasks
              THEN /\ tasks' = [tasks EXCEPT ![arg] = CompletedInfo(@, "r1")]
                   /\ thread' = ThreadOn(t, FALSE)
                   /\ mutex' = held
                   /\ UNCHANGED <<execution_count, tret>>
              ELSE /\ ThreadFails(t)
                   /\ UNCHANGED <<tasks, execution_count>>
         [] op = "mark_failed" ->
              IF arg \in DOMAIN tasks
              THEN /\ tasks' = [tasks EXCEPT ![arg].state = "Failed", ![arg].error = "e1"]
                   /\ thread' = ThreadOn(t, FALSE)
                   /\ mutex' = held
                   /\ UNCHANGED <<execution_count, tret>>
              ELSE /\ ThreadFails(t)
                   /\ UNCHANGED <<tasks, execution_count>>
         [] op = "begin_execution" ->
              IF BeginAdmits(execution_count, max_recursion_depth)
              THEN /\ execution_count' = execution_count + 1
                   /\ thread' = ThreadOn(t, FALSE)
                   /\ mutex' = held
                   /\ UNCHANGED <<tasks, tret>>
              ELSE /\ ThreadFails(t)
                   /\ UNCHANGED <<tasks, execution_count>>
         [] op = "get_cached" ->
              /\ thread' = ThreadOn(t,
                    /\ CacheKey(<<"t">>, arg) \in DOMAIN result_cache
                    /\ Fresh(now - result_cache[CacheKey(<<"t">>, arg)].timestamp,
                             cache_ttl_secs))
              /\ mutex' = held
              /\ UNCHANGED <<tasks, execution_count, tret>>
    /\ UNCHANGED <<tstats, gstats, thist, conc, orch>>
    /\ UNCHANGED <<ret, completed_calls, completed_ever>>
    /\ UNCHANGED <<max_recursion_depth, count_lock, pc, gret, ghist, cacheVars>>

\* lock() on the Mutex of the statistics, and the load of the counter.
lock_stats(t) ==
    LET op == thread[t].op
        m == Locks(op)[thread[t].next]
    IN
    /\ thread[t].at = "lock"
    /\ m \in StatsMutexes
    /\ MutexFree(m)
    /\ mutex' = [mutex EXCEPT ![m] = t]
    /\ thread' = [ThreadOn(t, thread[t].hit) EXCEPT
                        ![t].local = Counter(op, thread[t].hit)]
    /\ UNCHANGED <<tret, thist, conc, orch, taskVars, guardVars, cacheVars>>

\* The store of the incremented counter, and the return.
store_counter(t) ==
    LET op == thread[t].op
        sum == thread[t].local + 1
    IN
    /\ thread[t].at = "store"
    /\ tstats' = CASE op = "register_task" -> [tstats EXCEPT !.tasks_scheduled = sum]
                    [] op = "mark_completed" -> [tstats EXCEPT !.tasks_completed = sum]
                    [] op = "mark_failed" -> [tstats EXCEPT !.tasks_failed = sum]
                    [] OTHER -> tstats
    /\ gstats' = CASE op = "begin_execution" -> [gstats EXCEPT !.total_executions = sum]
                    [] op = "get_cached" /\ thread[t].hit -> [gstats EXCEPT !.cache_hits = sum]
                    [] op = "get_cached" /\ ~thread[t].hit ->
                            [gstats EXCEPT !.cache_misses = sum]
                    [] OTHER -> gstats
    /\ thread' = [thread EXCEPT ![t] = NoThreadCall]
    /\ mutex' = Unlocked(t)
    /\ tret' = [thread |-> t, op |-> op, ok |-> TRUE]
    /\ thist' = [thist EXCEPT !.ok[op] = @ + 1]
    /\ UNCHANGED <<tasks, ret, completed_calls, completed_ever, conc, orch>>
    /\ UNCHANGED <<max_recursion_depth, execution_count, count_lock, pc, gret, ghist>>
    /\ UNCHANGED cacheVars

ThreadStep(t) == lock_data(t) \/ lock_stats(t) \/ store_counter(t)

ThreadInit == NewTaskExecutor /\ NewGuard(MaxDepth, DefaultTtl)

ThreadNext ==
    \E t \in Threads :
        \/ \E op \in ThreadOps : thread_call(t, op, <<"A">>)
        \/ lock_data(t)
        \/ lock_stats(t)
        \/ store_counter(t)

SpecThreads == ThreadInit /\ [][ThreadNext]_vars

\* Every thread that can take a step is scheduled.
SpecThreadsFair == SpecThreads /\ \A t \in Threads : WF_vars(ThreadStep(t))

(***************************************************************************)
(* Orchestrators that drive a registered graph with separate calls: each   *)
(* calls get_ready_tasks and keeps the list, calls mark_started on a task  *)
(* of its list, and calls mark_completed or mark_failed on a task it has   *)
(* started. Each call is one operation of the executor; nothing ties one   *)
(* call of an orchestrator to its next.                                    *)
(***************************************************************************)
\* The registered graphs: no cycle, every dependency registered. They are
\* the graphs of A and B, and the graph of three tasks in which B depends on
\* A and C on A and B.
LoopGraphs ==
    {g \in Graphs :
        /\ DOMAIN g # {}
        /\ \A id \in DOMAIN g : Range(g[id].dependencies) \subseteq DOMAIN g
        /\ ~\E S \in SUBSET (DOMAIN g) :
                S # {} /\ \A x \in S : Range(g[x].dependencies) \cap S # {}
        /\ \/ DOMAIN g \subseteq LifeIds
           \/ /\ DOMAIN g = TaskIds
              /\ g["A"].dependencies = <<>>
              /\ g["B"].dependencies = <<"A">>
              /\ g["C"].dependencies = <<"A", "B">>}

LoopInit ==
    /\ GuardIdle
    /\ tasks \in LoopGraphs
    /\ tstats = [tasks_scheduled |-> Cardinality(DOMAIN tasks),
                 tasks_completed |-> 0, tasks_failed |-> 0,
                 total_execution_time_ms |-> 0]
    /\ ret = Ok("register_task", None, None)
    /\ completed_calls = {}
    /\ completed_ever = {}

\* get_ready_tasks, called by orchestrator o.
orchestrator_ready(o) ==
    /\ \E order \in IterOrders(DOMAIN tasks) :
         LET ready == ReadyLoop(tasks, order, 1, <<>>) IN
           /\ ret' = Ok("get_ready_tasks", None, ready)
           /\ orch' = [orch EXCEPT !.ready[o] = ready]
    /\ UNCHANGED <<tasks, tstats, completed_calls, completed_ever>>
    /\ UNCHANGED <<mutex, thread, tret, thist, conc, guardVars, cacheVars>>

\* A variant of the assignment that starts Pending tasks only.
StartedInfoPendingOnly(task) ==
    IF task.state = "Pending" THEN [task EXCEPT !.state = "Running"] ELSE task

\* The assignment of mark_started to the task it found.
StartedInfo(task) == [task EXCEPT !.state = "Running"]

\* mark_started, called by orchestrator o on a task of its list.
orchestrator_start(o, task_id) ==
    /\ task_id \in Range(orch.ready[o])
    /\ IF task_id \in DOMAIN tasks
       THEN /\ tasks' = [tasks EXCEPT ![task_id] = StartedInfo(@)]
            /\ ret' = Ok("mark_started", task_id, None)
            /\ completed_calls' = completed_calls \ {task_id}
            /\ orch' = [orch EXCEPT
                    !.ready[o] = SelectSeq(@, LAMBDA id : id # task_id),
                    !.started[o] = @ \cup {task_id},
                    !.starts[task_id] = @ \cup {o},
                    !.stale = @ \/ tasks[task_id].state # "Pending"]
       ELSE /\ ret' = Err("mark_started", task_id, "NotFound")
            /\ orch' = [orch EXCEPT
                    !.ready[o] = SelectSeq(@, LAMBDA id : id # task_id)]
            /\ UNCHANGED <<tasks, completed_calls>>
    /\ UNCHANGED <<tstats, completed_ever>>
    /\ UNCHANGED <<mutex, thread, tret, thist, conc, guardVars, cacheVars>>

\* mark_completed, called by orchestrator o on a task it has started.
orchestrator_complete(o, task_id, result) ==
    /\ task_id \in orch.started[o]
    /\ orch' = [orch EXCEPT !.started[o] = @ \ {task_id}]
    /\ IF task_id \in DOMAIN tasks
       THEN /\ tasks' = [tasks EXCEPT ![task_id] = CompletedInfo(@, result)]
            /\ tstats' = [tstats EXCEPT !.tasks_completed = @ + 1]
            /\ ret' = Ok("mark_completed", task_id, None)
            /\ completed_calls' = completed_calls \cup {task_id}
            /\ completed_ever' = completed_ever \cup {task_id}
       ELSE /\ ret' = Err("mark_completed", task_id, "NotFound")
            /\ UNCHANGED <<tasks, tstats, completed_calls, completed_ever>>
    /\ UNCHANGED <<mutex, thread, tret, thist, conc, guardVars, cacheVars>>

\* mark_failed, called by orchestrator o on a task it has started.
orchestrator_fail(o, task_id, error) ==
    /\ task_id \in orch.started[o]
    /\ orch' = [orch EXCEPT !.started[o] = @ \ {task_id}]
    /\ IF task_id \in DOMAIN tasks
       THEN /\ tasks' = [tasks EXCEPT ![task_id].state = "Failed",
                                      ![task_id].error = error]
            /\ tstats' = [tstats EXCEPT !.tasks_failed = @ + 1]
            /\ ret' = Ok("mark_failed", task_id, None)
            /\ completed_calls' = completed_calls \ {task_id}
       ELSE /\ ret' = Err("mark_failed", task_id, "NotFound")
            /\ UNCHANGED <<tasks, tstats, completed_calls>>
    /\ UNCHANGED completed_ever
    /\ UNCHANGED <<mutex, thread, tret, thist, conc, guardVars, cacheVars>>

LoopNext ==
    \E o \in Orchestrators :
        \/ orchestrator_ready(o)
        \/ \E id \in TaskIds : orchestrator_start(o, id)
        \/ \E id \in TaskIds, r \in Results : orchestrator_complete(o, id, r)
        \/ \E id \in TaskIds, e \in Errors : orchestrator_fail(o, id, e)

SpecLoop == LoopInit /\ [][LoopNext]_vars

\* Every orchestrator goes on calling: it asks again for the ready tasks,
\* starts a task while its list has one, and ends a task it has started.
SpecLoopFair ==
    /\ SpecLoop
    /\ \A o \in Orchestrators :
          /\ WF_vars(orchestrator_ready(o))
          /\ WF_vars(\E id \in TaskIds : orchestrator_start(o, id))
          /\ WF_vars(\E id \in TaskIds, r \in Results : orchestrator_complete(o, id, r))

(***************************************************************************)
(* An orchestrator that asks get_execution_order once, while every task is *)
(* Pending, keeps the order, and calls mark_completed on its entries one   *)
(* at a time from the front.                                               *)
(***************************************************************************)
\* The registered graphs: no cycle, every dependency registered.
WalkGraphs ==
    {g \in Graphs :
        /\ DOMAIN g # {}
        /\ \A id \in DOMAIN g : Range(g[id].dependencies) \subseteq DOMAIN g
        /\ ~\E S \in SUBSET (DOMAIN g) :
                S # {} /\ \A x \in S : Range(g[x].dependencies) \cap S # {}}

WalkInit ==
    /\ GuardIdle
    /\ tasks \in WalkGraphs
    /\ tstats = [tasks_scheduled |-> Cardinality(DOMAIN tasks),
                 tasks_completed |-> 0, tasks_failed |-> 0,
                 total_execution_time_ms |-> 0]
    /\ ret = Ok("register_task", None, None)
    /\ completed_calls = {}
    /\ completed_ever = {}

\* get_execution_order, called by orchestrator o before any other call.
orchestrator_order(o) ==
    /\ ret.op = "register_task"
    /\ \E order1, order2 \in IterOrders(DOMAIN tasks) :
         LET order == ExecutionOrder(tasks, order1, order2) IN
           /\ ret' = order
           /\ orch' = [orch EXCEPT !.ready[o] = IF order.ok THEN order.val ELSE <<>>]
    /\ UNCHANGED <<tasks, tstats, completed_calls, completed_ever>>
    /\ UNCHANGED <<mutex, thread, tret, thist, conc, guardVars, cacheVars>>

\* mark_completed, called by orchestrator o on the first entry it has left.
orchestrator_complete_next(o, result) ==
    LET task_id == Head(orch.ready[o]) IN
    /\ orch.ready[o] # <<>>
    /\ orch' = [orch EXCEPT !.ready[o] = Tail(@)]
    /\ IF task_id \in DOMAIN tasks
       THEN /\ tasks' = [tasks EXCEPT ![task_id] = CompletedInfo(@, result)]
            /\ tstats' = [tstats EXCEPT !.tasks_completed = @ + 1]
            /\ ret' = Ok("mark_completed", task_id, None)
            /\ completed_calls' = completed_calls \cup {task_id}
            /\ completed_ever' = completed_ever \cup {task_id}
       ELSE /\ ret' = Err("mark_completed", task_id, "NotFound")
            /\ UNCHANGED <<tasks, tstats, completed_calls, completed_ever>>
    /\ UNCHANGED <<mutex, thread, tret, thist, conc, guardVars, cacheVars>>

WalkNext ==
    \/ orchestrator_order("o1")
    \/ \E r \in Results : orchestrator_complete_next("o1", r)

SpecWalk == WalkInit /\ [][WalkNext]_vars

(***************************************************************************)
(* Properties of get_execution_order                                       *)
(***************************************************************************)
DepSet(t, id) == Range(t[id].dependencies)

\* Some non-empty set of registered tasks each depends on a member of the
\* set: the dependency graph has a cycle (a self-dependency included).
HasCycle(t) ==
    \E S \in SUBSET (DOMAIN t) :
        S # {} /\ \A x \in S : DepSet(t, x) \cap S # {}

\* Some dependency names no registered task.
HasDangling(t) == \E id \in DOMAIN t : ~(DepSet(t, id) \subseteq DOMAIN t)

\* seq holds every registered identifier exactly once, each after all of
\* its dependencies.
IsTopologicalOrder(t, seq) ==
    /\ Len(seq) = Cardinality(DOMAIN t)
    /\ Range(seq) = DOMAIN t
    /\ \A i \in 1..Len(seq) : \A d \in DepSet(t, seq[i]) :
          \E j \in 1..(i - 1) : seq[j] = d

OrderReturned == ret.op = "get_execution_order"

\* C1 as stated: for every acyclic dependency graph get_execution_order
\* succeeds with every registered identifier exactly once, dependencies first.
C1_AcyclicOrdered ==
    (OrderReturned /\ ~HasCycle(tasks)) =>
        (ret.ok /\ IsTopologicalOrder(tasks, ret.val))

\* C1 amended: for every acyclic dependency graph in which every dependency
\* is a registered task, get_execution_order succeeds and returns every
\* registered identifier exactly once, each dependency before its dependents.
C1_AcyclicClosedOrdered ==
    (OrderReturned /\ ~HasCycle(tasks) /\ ~HasDangling(tasks)) =>
        (ret.ok /\ IsTopologicalOrder(tasks, ret.val))

\* An order was returned for three tasks, one of which has two different
\* dependencies and one of which lists a dependency twice.
C1_Witness ==
    /\ OrderReturned /\ ret.ok
    /\ ~HasCycle(tasks) /\ ~HasDangling(tasks)
    /\ DOMAIN tasks = TaskIds
    /\ \E id \in TaskIds : Cardinality(DepSet(tasks, id)) = 2
    /\ \E id \in TaskIds : Len(tasks[id].dependencies) = 2
                             /\ Cardinality(DepSet(tasks, id)) = 1

\* C2: whenever the dependency graph has a cycle (a self-dependency
\* included), get_execution_order fails with CycleDetected and returns no
\* order, not even of the tasks outside the cycle.
C2_CycleRejected ==
    (OrderReturned /\ HasCycle(tasks)) =>
        (~ret.ok /\ ret.val = "CycleDetected")

\* The call failed on a graph with a self-dependent task and a task that
\* has no dependencies and is no one's dependency.
C2_Witness ==
    /\ OrderReturned /\ ~ret.ok
    /\ \E x \in DOMAIN tasks : x \in DepSet(tasks, x)
    /\ \E y \in DOMAIN tasks :
          /\ tasks[y].dependencies = <<>>
          /\ \A z \in DOMAIN tasks : y \notin DepSet(tasks, z)

(***************************************************************************)
(* Properties of get_ready_tasks                                           *)
(***************************************************************************)
\* The Pending tasks whose dependencies are all registered and Completed.
ReadySet(t) ==
    {id \in DOMAIN t :
        /\ t[id].state = "Pending"
        /\ \A d \in DepSet(t, id) : d \in DOMAIN t /\ t[d].state = "Completed"}

ReadyReturned == ret.op = "get_ready_tasks"

\* C3: get_ready_tasks succeeds and returns, each once, exactly the Pending
\* tasks whose dependencies are all registered and all Completed; a task
\* with an unregistered dependency is left out, and so is every Running,
\* Completed or Failed task.
C3_ReadyExact ==
    ReadyReturned =>
        /\ ret.ok
        /\ Len(ret.val) = Cardinality(Range(ret.val))
        /\ Range(ret.val) = ReadySet(tasks)

\* get_ready_tasks returned while a Pending task had one Completed and one
\* unregistered dependency, and the Completed task had nothing to wait for.
C3_Witness ==
    /\ ReadyReturned /\ ret.ok
    /\ \E id \in DOMAIN tasks, d1, d2 \in TaskIds :
          /\ tasks[id].state = "Pending"
          /\ tasks[id].dependencies = <<d1, d2>>
          /\ d1 \in DOMAIN tasks /\ tasks[d1].state = "Completed"
          /\ tasks[d1].dependencies = <<>>
          /\ d2 \notin DOMAIN tasks
          /\ id \notin Range(ret.val) /\ d1 \notin Range(ret.val)

\* C4 as stated: once mark_completed has been called (here: has succeeded)
\* on every dependency of a task, a get_ready_tasks call returns the task if
\* it is still Pending.
C4_ReadyAfterEverCompleted ==
    ReadyReturned =>
        \A id \in DOMAIN tasks :
            (tasks[id].state = "Pending" /\ DepSet(tasks, id) \subseteq completed_ever)
                => id \in Range(ret.val)

\* C4 amended: once mark_completed has succeeded on every dependency of a
\* task, and none of them has been registered again, started, failed or
\* cleared since, a get_ready_tasks call returns the task if it is still
\* Pending.
C4_ReadyAfterCompletion ==
    ReadyReturned =>
        \A id \in DOMAIN tasks :
            (tasks[id].state = "Pending" /\ DepSet(tasks, id) \subseteq completed_calls)
                => id \in Range(ret.val)

\* A, B with dependencies [A] and C with dependencies [A, B] (A first or
\* second): after mark_completed on A and on B, get_ready_tasks returns C.
C4_Witness ==
    /\ ReadyReturned
    /\ \E id \in DOMAIN tasks :
          /\ Cardinality(DepSet(tasks, id)) = 2
          /\ DepSet(tasks, id) \subseteq completed_calls
          /\ Range(ret.val) = {id}

(***************************************************************************)
(* Properties of begin_execution and end_execution                         *)
(***************************************************************************)
Min(a, b) == IF a < b THEN a ELSE b

\* Caller c's end_execution takes effect and returns in this step.
EndReturns(c) == pc[c].at = "end" /\ pc'[c].at = "idle"

\* C5: under every interleaving of begin_execution and end_execution calls
\* the in-flight count stays within 0..max_recursion_depth, and an
\* end_execution on a zero count succeeds and leaves the count at zero.
C5_CountInRange ==
    /\ [](0 <= execution_count /\ execution_count <= max_recursion_depth)
    /\ [][\A c \in Callers :
            (EndReturns(c) /\ execution_count = 0) =>
                (execution_count' = 0 /\ gret' = GRet(c, "end_execution", TRUE, None))]_vars

\* An end_execution returned on a zero count, and afterwards the only
\* admitted begin_execution raised the count to its maximum of 1.
C5_Witness ==
    /\ ghist.ends >= 1
    /\ ghist.ok_begins = 1
    /\ ghist.begin_after_end
    /\ max_recursion_depth = 1
    /\ execution_count = max_recursion_depth

\* C6: begin_execution succeeds exactly when the in-flight count is below
\* max_recursion_depth at the moment it holds the counter: then the count
\* and, by the time it returns, total_executions have each grown by one;
\* otherwise it fails with DepthExceeded and leaves both unchanged.
C6_BeginIffBelowBound ==
    [][\A c \in Callers :
        /\ (pc[c].at = "begin_check" /\ pc'[c].at # "begin_check") =>
              IF execution_count < max_recursion_depth
              THEN pc'[c].at = "begin_incr" /\ UNCHANGED <<execution_count, gstats>>
              ELSE /\ pc'[c].at = "idle"
                   /\ gret' = GRet(c, "begin_execution", FALSE, "DepthExceeded")
                   /\ UNCHANGED <<execution_count, gstats>>
        /\ (pc[c].at = "begin_incr" /\ pc'[c].at # "begin_incr") =>
              /\ pc'[c].at = "begin_stats"
              /\ execution_count' = execution_count + 1
              /\ UNCHANGED gstats
        /\ (pc[c].at = "begin_stats" /\ pc'[c].at # "begin_stats") =>
              /\ pc'[c].at = "idle"
              /\ gret'.caller = c /\ gret'.op = "begin_execution" /\ gret'.ok
              /\ gstats'.total_executions = gstats.total_executions + 1
              /\ UNCHANGED execution_count
        /\ (pc[c].at \in {"begin_check", "begin_incr", "begin_stats"}
              /\ pc'[c].at = pc[c].at) => UNCHANGED <<execution_count, gstats>>
      ]_vars

\* With max_recursion_depth = 1: a begin_execution was admitted, another
\* was refused before any end_execution, and after the end_execution a
\* third has just returned successfully.
C6_Witness ==
    /\ max_recursion_depth = 1
    /\ gret.op = "begin_execution" /\ gret.ok
    /\ ghist.ok_begins = 2 /\ ghist.fail_begins = 1 /\ ghist.ends = 1
    /\ execution_count = 1 /\ gstats.total_executions = 2

Quiescent == \A c \in Callers : pc[c].at = "idle"

\* C7: as long as no end_execution has taken effect, of the N
\* begin_execution calls decided so far min(N, B) were admitted and the
\* others were refused; and when no begin_execution was decided after an
\* end_execution, the count left by the calls that have returned is the
\* number of admitted begins less the number of ends (0 when they match).
C7_AtMostBoundAdmitted ==
    /\ ghist.ends = 0 =>
          ghist.ok_begins = Min(ghist.ok_begins + ghist.fail_begins, max_recursion_depth)
    /\ (~ghist.begin_after_end /\ Quiescent /\ ghist.ends <= ghist.ok_begins) =>
          execution_count = ghist.ok_begins - ghist.ends

\* Three begin_execution calls were pending together on a guard with bound
\* 1: one was admitted, two were refused, and after one end_execution the
\* count is back to 0.
C7_Witness ==
    /\ max_recursion_depth = 1
    /\ ghist.overlapped /\ ~ghist.begin_after_end
    /\ ghist.ok_begins = 1 /\ ghist.fail_begins = 2 /\ ghist.ends = 1
    /\ Quiescent
    /\ execution_count = 0

(***************************************************************************)
(* The result cache.                                                       *)
(***************************************************************************)
\* The step is a get_cached call: only get_cached counts a hit or a miss.
Lookup ==
    gstats'.cache_hits + gstats'.cache_misses
        = gstats.cache_hits + gstats.cache_misses + 1

\* The step is a cache_result call.
Put == chist'.puts = chist.puts + 1

\* The step is a get_cached call for the name and arguments of a
\* cache_result call that was the last cache call and was made at this
\* instant.
GetRightAfterPut ==
    /\ Lookup
    /\ cret.op = "cache_result"
    /\ cret.at = now
    /\ cret'.tool_name = cret.tool_name
    /\ cret'.args = cret.args

\* C8 as stated: for every cache_ttl_secs, 0 included, a get_cached that
\* directly follows a cache_result of r for the same name and arguments,
\* with no time elapsed, returns r.
C8_PutThenGetReturns ==
    [][GetRightAfterPut => cret'.val = cret.val]_vars

\* C8: when cache_ttl_secs is at least 1, a get_cached that directly follows
\* a cache_result of r for the same name and arguments, with no time
\* elapsed, returns r and counts a hit.
C8_PutThenGetReturnsPositiveTtl ==
    [][(GetRightAfterPut /\ cache_ttl_secs >= 1) =>
            /\ cret'.val = cret.val
            /\ gstats'.cache_hits = gstats.cache_hits + 1]_vars

\* After time had passed, the only cache_result so far stored r, and a
\* get_cached for the same name and arguments at the same instant returned r.
C8_Witness ==
    /\ cache_ttl_secs >= 1
    /\ now >= 1
    /\ chist.puts = 1
    /\ cret.op = "get_cached"
    /\ cret.at = now
    /\ cret.val \in CacheResults
    /\ <<cret.tool_name, cret.args>> \in DOMAIN chist.last_put
    /\ chist.last_put[<<cret.tool_name, cret.args>>] = cret.val
    /\ result_cache[CacheKey(cret.tool_name, cret.args)].timestamp = now

\* C9: get_cached returns an entry exactly when the map holds one for the
\* key whose age is below cache_ttl_secs seconds, and then returns that
\* entry's result; a lookup cache_ttl_secs seconds or more after the
\* cache_result is a miss. A cache_result replaces the entry for its key by
\* its own result with age zero.
C9_ReturnedOnlyWhileYoung ==
    /\ [][Lookup =>
            LET key == CacheKey(cret'.tool_name, cret'.args) IN
            /\ (cret'.val # None) <=>
                    /\ key \in DOMAIN result_cache
                    /\ now - result_cache[key].timestamp < cache_ttl_secs * TicksPerSec
            /\ (cret'.val # None) => cret'.val = result_cache[key].result]_vars
    /\ [][Put =>
            LET key == CacheKey(cret'.tool_name, cret'.args) IN
            /\ key \in DOMAIN result_cache'
            /\ result_cache'[key] = [result |-> cret'.val, timestamp |-> now]]_vars

\* With a positive cache_ttl_secs, a lookup found the entry of a key too
\* old, a later cache_result stored the key again, and a lookup then
\* returned the new entry.
C9_Witness ==
    /\ cache_ttl_secs >= 1
    /\ cret.op = "get_cached"
    /\ cret.val \in CacheResults
    /\ CacheKey(cret.tool_name, cret.args) \in chist.expired
    /\ chist.puts = 2
    /\ result_cache[CacheKey(cret.tool_name, cret.args)].timestamp
            >= cache_ttl_secs * TicksPerSec

\* C10: the cache is keyed by the pair (tool_name, args): whatever get_cached
\* returns for a name and an argument string, ':' in either included, is
\* the result the latest cache_result with that same name and that same
\* argument string stored.
C10_KeyedByPair ==
    (cret.op = "get_cached" /\ cret.val # None) =>
        /\ <<cret.tool_name, cret.args>> \in DOMAIN chist.last_put
        /\ chist.last_put[<<cret.tool_name, cret.args>>] = cret.val

\* The step is a get_cached call that returned.
GetCall == chist'.gets = chist.gets + 1

\* C11: every get_cached call adds one to exactly one of cache_hits and
\* cache_misses: to cache_hits when it returns a result, to cache_misses when
\* it returns nothing; so cache_hits + cache_misses is always the number of
\* get_cached calls made, and cache_result changes no counter.
C11_OneCounterPerLookup ==
    /\ [][GetCall =>
            \/ /\ cret'.val # None
               /\ gstats' = [gstats EXCEPT !.cache_hits = @ + 1]
            \/ /\ cret'.val = None
               /\ gstats' = [gstats EXCEPT !.cache_misses = @ + 1]]_vars
    /\ [](gstats.cache_hits + gstats.cache_misses = chist.gets)
    /\ [][Put => gstats' = gstats]_vars

\* Two lookups were made, one a hit and one a miss, between two cache_result
\* calls or after them.
C11_Witness ==
    /\ chist.gets = 2
    /\ chist.puts = 2
    /\ gstats.cache_hits = 1
    /\ gstats.cache_misses = 1

\* The step is a clear_cache call.
ClearCall ==
    /\ cret'.op = "clear_cache"
    /\ \/ cret.op # "clear_cache"
       \/ cret'.val # cret.val
       \/ cret'.at # cret.at
       \/ DOMAIN result_cache # {}

\* C12: clear_cache empties the cache and returns the number of distinct keys
\* cache_result has stored since the previous clear_cache, entries too old to
\* be returned included; it changes no statistics counter and not the
\* in-flight count; and a lookup made when no cache_result has followed the
\* last clear_cache is a miss.
C12_ClearCacheEmpties ==
    /\ [][ClearCall =>
            /\ result_cache' = <<>>
            /\ cret'.val = Cardinality(chist.put_keys)
            /\ gstats' = gstats
            /\ execution_count' = execution_count]_vars
    /\ [][(GetCall /\ chist.put_keys = {}) => cret'.val = None]_vars

\* clear_cache removed two entries and returned 2, and a lookup had already
\* found one of the two too old to return.
C12_Witness ==
    /\ cache_ttl_secs >= 1
    /\ chist.puts = 2
    /\ chist.expired # {}
    /\ cret.op = "clear_cache"
    /\ cret.val = 2
    /\ result_cache = <<>>

(***************************************************************************)
(* Properties of can_execute, get_result and the task lifecycle            *)
(***************************************************************************)
\* The last RustTaskExecutor call was can_execute.
CanExecuteReturned == ret.op = "can_execute"

\* C13: can_execute on a registered task returns true exactly when every
\* dependency of the task is registered and in state Completed, whatever the
\* state of the task itself.
C13_ReadyIffDepsCompleted ==
    (CanExecuteReturned /\ ret.arg \in DOMAIN tasks) =>
        ((ret.ok /\ ret.val = TRUE) <=>
            \A d \in DepSet(tasks, ret.arg) :
                d \in DOMAIN tasks /\ tasks[d].state = "Completed")

\* can_execute returned true for a task that is itself Running, Completed or
\* Failed and depends on another task.
C13_Witness ==
    /\ CanExecuteReturned
    /\ ret.arg \in DOMAIN tasks
    /\ ret.ok /\ ret.val = TRUE
    /\ tasks[ret.arg].state # "Pending"
    /\ tasks[ret.arg].dependencies # <<>>
    /\ ret.arg \notin DepSet(tasks, ret.arg)

\* C14: can_execute fails with NotFound whenever the identifier is not
\* registered or some identifier in its dependency list is not registered,
\* wherever in the list it stands and whatever the state of the other
\* dependencies; it never answers false then.
C14_DanglingIsNotFound ==
    (/\ CanExecuteReturned
     /\ \/ ret.arg \notin DOMAIN tasks
        \/ \E d \in DepSet(tasks, ret.arg) : d \notin DOMAIN tasks) =>
        (~ret.ok /\ ret.val = "NotFound")

\* The operations of C15.
ByIdOps == {"mark_started", "mark_completed", "mark_failed", "get_result"}

\* C15: mark_started, mark_completed, mark_failed and get_result on an
\* identifier that is not registered fail with NotFound and leave the task
\* map and the counters as they were.
C15_UnknownIdNotFound ==
    [][(ret'.op \in ByIdOps /\ ret'.arg \notin DOMAIN tasks) =>
            /\ ~ret'.ok
            /\ ret'.val = "NotFound"
            /\ tasks' = tasks
            /\ tstats' = tstats]_vars

\* mark_failed was refused for an unregistered identifier while another
\* task was registered and Completed.
C15_Witness ==
    /\ ret.op = "mark_failed"
    /\ ~ret.ok
    /\ ret.arg \notin DOMAIN tasks
    /\ \E id \in DOMAIN tasks : tasks[id].state = "Completed"
    /\ tstats.tasks_failed = 0

\* C16: in every reachable state each registered task has a result exactly
\* when its state is Completed and an error exactly when its state is Failed.
C16_ResultIffCompleted ==
    \A id \in DOMAIN tasks :
        /\ (tasks[id].result # None) <=> (tasks[id].state = "Completed")
        /\ (tasks[id].error # None) <=> (tasks[id].state = "Failed")

\* C17 as stated: an identifier that is registered and Running, Completed or
\* Failed is not Pending after the next operation, and an identifier that
\* has been Completed is never Pending afterwards.
C17_NoReturnToPending ==
    /\ [](\A id \in completed_ever :
            id \in DOMAIN tasks => tasks[id].state # "Pending")
    /\ [][\A id \in DOMAIN tasks :
            (tasks[id].state # "Pending" /\ id \in DOMAIN tasks') =>
                tasks'[id].state # "Pending"]_vars

\* C17: an identifier comes to be in state Pending, from being unregistered
\* or from Running, Completed or Failed, only by a register_task call on it;
\* mark_started, mark_completed, mark_failed, clear and the queries never
\* put an identifier in state Pending.
C17_OnlyRegisterMakesPending ==
    [][\A id \in TaskIds :
            (/\ id \in DOMAIN tasks'
             /\ tasks'[id].state = "Pending"
             /\ ~(id \in DOMAIN tasks /\ tasks[id].state = "Pending")) =>
                (ret'.op = "register_task" /\ ret'.arg = id /\ ret'.ok)]_vars

\* A task that had been Completed was registered again and is Pending.
C17_Witness ==
    /\ ret.op = "register_task"
    /\ ret.arg \in completed_ever
    /\ tasks[ret.arg].state = "Pending"
    /\ tstats.tasks_completed >= 1

\* C18: register_task(id, deps) succeeds whether or not id and the
\* identifiers in deps are registered; afterwards id is registered with
\* exactly deps, Pending, without result or error, every other task is as it
\* was, and tasks_scheduled has grown by exactly one.
C18_RegisterOverwrites ==
    [][\A id \in LifeIds, deps \in LifeDepLists :
            register_task(id, deps) =>
                /\ ret'.ok
                /\ DOMAIN tasks' = DOMAIN tasks \cup {id}
                /\ tasks'[id] = [dependencies |-> deps, state |-> "Pending",
                                 result |-> None, error |-> None]
                /\ \A other \in DOMAIN tasks \ {id} : tasks'[other] = tasks[other]
                /\ tstats' = [tstats EXCEPT !.tasks_scheduled = @ + 1]]_vars

\* After a mark_failed, the third register_task call registered a task with
\* a dependency list that names an unregistered identifier first, while
\* another task stayed Completed.
C18_Witness ==
    /\ ret.op = "register_task"
    /\ tasks[ret.arg] = [dependencies |-> <<"C", "A">>, state |-> "Pending",
                         result |-> None, error |-> None]
    /\ tstats.tasks_failed = 1
    /\ tstats.tasks_scheduled = 3
    /\ \E other \in DOMAIN tasks \ {ret.arg} : tasks[other].state = "Completed"

(***************************************************************************)
(* Properties of the statistics counters and of validate_args              *)
(***************************************************************************)
\* The step is a clear call.
ClearStep ==
    /\ ret'.op = "clear"
    /\ ret.op # "clear" \/ DOMAIN tasks # {} \/ tstats' # tstats

\* C19: no operation lowers tasks_scheduled, tasks_completed, tasks_failed,
\* total_execution_time_ms, total_executions, cache_hits, cache_misses or
\* validation_failures; clear removes every registered task and leaves every
\* counter as it was.
C19_CountersMonotone ==
    /\ [][/\ tstats'.tasks_scheduled >= tstats.tasks_scheduled
          /\ tstats'.tasks_completed >= tstats.tasks_completed
          /\ tstats'.tasks_failed >= tstats.tasks_failed
          /\ tstats'.total_execution_time_ms >= tstats.total_execution_time_ms
          /\ gstats'.total_executions >= gstats.total_executions
          /\ gstats'.cache_hits >= gstats.cache_hits
          /\ gstats'.cache_misses >= gstats.cache_misses
          /\ gstats'.validation_failures >= gstats.validation_failures]_vars
    /\ [][ClearStep =>
            /\ DOMAIN tasks' = {}
            /\ tstats' = tstats
            /\ gstats' = gstats]_vars

\* clear returned on an executor all four of whose counters had grown, and
\* left them as they were.
C19_Witness ==
    /\ ret.op = "clear"
    /\ DOMAIN tasks = {}
    /\ tstats.tasks_scheduled >= 1
    /\ tstats.tasks_completed >= 1
    /\ tstats.tasks_failed >= 1
    /\ tstats.total_execution_time_ms >= 1

\* The payloads of Payloads that are JSON texts.
WellFormed ==
    { <<"{", "}">>,
      <<"{", "\"", "a", "\"", ":", "1", "}">>,
      <<"[", "1", ",", "1", "]">>,
      <<" ", "1">> }

\* C20: validate_args on a malformed payload fails with Malformed and adds
\* exactly one to validation_failures; on a well-formed payload it returns
\* true and changes no counter; either way the in-flight count, the cache
\* and the other counters are as they were.
C20_ValidateCountsFailures ==
    [][\A c \in Callers :
            (pc[c].at = "validate" /\ pc'[c].at = "idle") =>
                /\ gret'.caller = c /\ gret'.op = "validate_args"
                /\ IF pc[c].args \in WellFormed
                   THEN /\ gret'.ok /\ gret'.val = TRUE
                        /\ gstats' = gstats
                   ELSE /\ ~gret'.ok /\ gret'.val = "Malformed"
                        /\ gstats' = [gstats EXCEPT !.validation_failures = @ + 1]
                /\ execution_count' = execution_count
                /\ result_cache' = result_cache
                /\ tstats' = tstats]_vars

\* validate_args failed for the second time while an execution was in
\* flight, the cache held an entry and a lookup had hit it.
C20_Witness ==
    /\ gret.op = "validate_args"
    /\ ~gret.ok
    /\ gstats.validation_failures = 2
    /\ execution_count = 1
    /\ gstats.total_executions = 1
    /\ DOMAIN result_cache # {}
    /\ gstats.cache_hits >= 1

(***************************************************************************)
(* Properties of batch_validate and parse_args                             *)
(***************************************************************************)
\* Caller c's batch_validate returns in this step.
BatchReturns(c) == pc[c].at = "batch" /\ pc'[c].at = "idle"

\* C21: batch_validate never fails and returns as many booleans as it was
\* given payloads, the i-th of them true exactly when the i-th payload is
\* well-formed, whatever the other payloads are.
C21_BatchParallelBooleans ==
    [][\A c \in Callers :
            BatchReturns(c) =>
                /\ gret'.caller = c /\ gret'.op = "batch_validate"
                /\ gret'.ok
                /\ Len(gret'.val) = Len(pc[c].args)
                /\ \A i \in 1..Len(pc[c].args) :
                        gret'.val[i] = (pc[c].args[i] \in WellFormed)]_vars

\* batch_validate returned true, false, true: a well-formed payload after a
\* malformed one.
C21_Witness ==
    /\ gret.op = "batch_validate"
    /\ gret.ok
    /\ gret.val = <<TRUE, FALSE, TRUE>>

\* C28: batch_validate changes the statistics as validate_args on each of
\* its payloads in turn would: validation_failures grows by the number of
\* malformed payloads in the batch.
C28_BatchCountsFailures ==
    [][\A c \in Callers :
            BatchReturns(c) =>
                gstats' = [gstats EXCEPT !.validation_failures =
                    @ + Cardinality({i \in 1..Len(pc[c].args) :
                                        pc[c].args[i] \notin WellFormed})]]_vars

ParseReturns(c) == pc[c].at = "parse" /\ pc'[c].at = "idle"

\* Sets of payloads that differ only in the order of object keys or in
\* blanks between tokens.
SameUpToOrderAndBlanks ==
    { {ObjAB, ObjBA, ObjBASpaced}, {NestedBA, NestedAB}, {One, <<" ", "1">>} }

\* C22: parse_args fails with Malformed exactly on the payloads that are not
\* JSON texts; on a JSON text it returns a text that parse_args returns
\* unchanged, and the same text for every payload that differs from the
\* given one only in key order or blanks.
C22_CanonicalForm ==
    [][\A c \in Callers : ParseReturns(c) =>
        /\ gret'.caller = c /\ gret'.op = "parse_args"
        /\ gret'.ok <=> pc[c].args \in WellFormed \cup KeyOrderPayloads
        /\ ~gret'.ok => gret'.val = "Malformed"
        /\ gret'.ok =>
              /\ ParseArgs(c, gret'.val).ok
              /\ ParseArgs(c, gret'.val).val = gret'.val
              /\ \A class \in SameUpToOrderAndBlanks :
                    pc[c].args \in class =>
                        \A other \in class :
                            /\ ParseArgs(c, other).ok
                            /\ ParseArgs(c, other).val = gret'.val
        /\ UNCHANGED <<gstats, execution_count, count_lock, cacheVars, taskVars, threadVars>>]_vars

\* parse_args has returned [{"a":"b","b":[]}], the text it gives for both
\* nested payloads.
C22_Witness ==
    /\ gret.op = "parse_args" /\ gret.ok
    /\ gret.val = NestedAB

(***************************************************************************)
(* Threads and guards.                                                     *)
(***************************************************************************)
Held(t) == {m \in Mutexes : mutex[m] = t}

Wanted(t) == Locks(thread[t].op)[thread[t].next]

\* The place of a Mutex in the order: the statistics after the data.
LockRank(m) == IF m \in StatsMutexes THEN 2 ELSE 1

\* A thread in lock() holds only guards that come earlier in the order, and
\* a thread that holds a statistics guard is not in lock().
LockOrder ==
    \A t \in Threads :
        thread[t].at = "lock" =>
            \A h \in Held(t) : LockRank(h) < LockRank(Wanted(t))

\* C25: every thread takes its guards in one order, the guard of the
\* statistics last and nothing after it, and every call that a thread has
\* entered returns.
C25_NoDeadlock ==
    /\ []LockOrder
    /\ \A t \in Threads : (thread[t].at # "idle") ~> (thread[t].at = "idle")

\* One thread holds the guard of the counter of begin_execution and is in
\* lock() on the statistics, whose guard another thread holds together with
\* the guard of the cache.
C25_Witness ==
    \E t, u \in Threads :
        /\ Held(t) = {"execution_count"}
        /\ thread[t].at = "lock" /\ Wanted(t) = "tool_stats"
        /\ Held(u) = {"result_cache", "tool_stats"}

\* C27: whatever the threads interleave, each counter is the number of calls
\* that returned Ok: register_task for tasks_scheduled, mark_completed for
\* tasks_completed (whatever the state of the task was), mark_failed for
\* tasks_failed, begin_execution for total_executions.
C27_NoUpdateLost ==
    /\ tstats.tasks_scheduled = thist.ok["register_task"]
    /\ tstats.tasks_completed = thist.ok["mark_completed"]
    /\ tstats.tasks_failed = thist.ok["mark_failed"]
    /\ gstats.total_executions = thist.ok["begin_execution"]

\* A thread is about to store tasks_completed = 2 for a task registered once
\* and completed before, while another thread is in lock() on the task map.
C27_Witness ==
    \E t, u \in Threads :
        /\ thread[t].op = "mark_completed" /\ thread[t].at = "store"
        /\ thread[t].local = 1
        /\ tstats.tasks_scheduled = 1 /\ tstats.tasks_completed = 1
        /\ thread[u].at = "lock" /\ Wanted(u) = "tasks"

(***************************************************************************)
(* execute_concurrent_tasks                                                *)
(***************************************************************************)
Occurrences(list, id) == Cardinality({i \in 1..Len(list) : list[i] = id})

ConcurrentReturns == conc.at = "run" /\ conc'.at = "idle"

\* C23: execute_concurrent_tasks returns, for every list; what it returns
\* holds each identifier as many times as the list does and nothing else,
\* and it returns only after every spawned unit has run.
C23_ConcurrentReturnsAll ==
    /\ [][ConcurrentReturns =>
            /\ ret'.op = "execute_concurrent_tasks" /\ ret'.ok
            /\ Len(ret'.val) = Len(conc.tasks)
            /\ \A id \in Range(conc.tasks) \cup Range(ret'.val) :
                    Occurrences(ret'.val, id) = Occurrences(conc.tasks, id)
            /\ conc.finished = 1..Len(conc.tasks)]_vars
    /\ (conc.at # "idle") ~> (conc.at = "idle")

\* The call has returned B, A, B, of which A is registered and B is not.
C23_Witness ==
    /\ ret.op = "execute_concurrent_tasks" /\ ret.ok
    /\ ret.val = <<"B", "A", "B">>
    /\ DOMAIN tasks = {"A"}

(***************************************************************************)
(* get_execution_order: when it fails                                      *)
(***************************************************************************)
\* C24: get_execution_order fails with CycleDetected only on a dependency
\* graph that has a cycle; a graph whose only defect is a dependency that
\* names no registered task is not reported as one.
C24_CycleOnlyWhenCyclic ==
    (OrderReturned /\ ~ret.ok /\ ret.val = "CycleDetected") => HasCycle(tasks)

(***************************************************************************)
(* Orchestrators                                                           *)
(***************************************************************************)
\* C26: mark_started on a task that an orchestrator took from its
\* get_ready_tasks result succeeds and leaves the task Running, whatever
\* another orchestrator has done to the task since the result was returned.
C26_StartInAnyState ==
    [][\A id \in TaskIds :
          (/\ orch'.ready # orch.ready
           /\ ret'.op = "mark_started" /\ ret'.arg = id
           /\ id \in DOMAIN tasks)
          => /\ ret'.ok
             /\ tasks'[id].state = "Running"
             /\ \A other \in DOMAIN tasks \ {id} : tasks'[other] = tasks[other]]_vars

\* Both orchestrators have started the same task, each from its own
\* get_ready_tasks result, and one of them when it was no longer Pending.
C26_Witness ==
    /\ \E id \in TaskIds : orch.starts[id] = Orchestrators
    /\ orch.stale

AllCompleted == \A id \in DOMAIN tasks : tasks[id].state = "Completed"

\* In a graph without a cycle and without an unregistered dependency, when
\* some task is Pending and none is Running or Failed, get_ready_tasks
\* returns at least one task.
SomeTaskReady ==
    (/\ ~HasCycle(tasks) /\ ~HasDangling(tasks)
     /\ \E id \in DOMAIN tasks : tasks[id].state = "Pending"
     /\ \A id \in DOMAIN tasks : tasks[id].state \notin {"Running", "Failed"})
    => \A order \in IterOrders(DOMAIN tasks) : ReadyLoop(tasks, order, 1, <<>>) # <<>>

\* C30: SomeTaskReady holds in every state, and orchestrators that go on
\* taking a ready task, starting it and completing it bring every task to
\* Completed (in the runs in which no task is marked failed).
C30_LoopProgress ==
    /\ []SomeTaskReady
    /\ <>(tstats.tasks_failed > 0 \/ AllCompleted)

\* Of three tasks the first is Completed, the others are Pending, and
\* nothing has failed: the second is ready, the third is not.
C30_Witness ==
    /\ DOMAIN tasks = TaskIds
    /\ tasks["A"].state = "Completed"
    /\ tasks["B"].state = "Pending" /\ tasks["C"].state = "Pending"
    /\ tstats.tasks_failed = 0

(***************************************************************************)
(* Queries                                                                 *)
(***************************************************************************)
TaskQueryOps ==
    {"can_execute", "get_ready_tasks", "get_result", "get_execution_order", "get_stats"}

ToolQueryReturns(c) == pc[c].at \in {"can_execute", "get_stats"} /\ pc'[c].at = "idle"

\* C29: can_execute of the RustToolExecutor returns whether execution_count
\* is below max_recursion_depth, and a step that returns from it, from
\* can_execute, get_ready_tasks, get_result, get_execution_order of the
\* RustTaskExecutor or from either get_stats, with Ok or with an error,
\* leaves execution_count, the cache, the task map and all counters as they
\* were.
C29_QueriesPure ==
    [][/\ ret'.op \in TaskQueryOps =>
            UNCHANGED <<execution_count, result_cache, tasks, tstats, gstats>>
       /\ \A c \in Callers : ToolQueryReturns(c) =>
            /\ UNCHANGED <<execution_count, result_cache, tasks, tstats, gstats>>
            /\ gret'.op # "can_execute" \/
                    gret'.val = (execution_count < max_recursion_depth)]_vars

\* can_execute has returned FALSE with the count at the maximum and an entry
\* in the cache.
C29_Witness ==
    /\ gret.op = "can_execute" /\ gret.ok
    /\ gret.val = FALSE
    /\ execution_count = max_recursion_depth
    /\ DOMAIN result_cache # {}

(***************************************************************************)
(* get_execution_order and readiness                                       *)
(***************************************************************************)
\* C31: when the tasks of a graph without a cycle and without an
\* unregistered dependency, all Pending, are completed one at a time in the
\* order get_execution_order returned, the task that is next is one for
\* which can_execute returns TRUE and that get_ready_tasks returns.
C31_OrderFollowsReadiness ==
    \A o \in Orchestrators :
        orch.ready[o] # <<>> =>
            LET task_id == Head(orch.ready[o])
                can == CanExecuteLoop(tasks, task_id, tasks[task_id].dependencies, 1)
            IN /\ task_id \in DOMAIN tasks
               /\ can.ok /\ can.val
               /\ \A order \in IterOrders(DOMAIN tasks) :
                     task_id \in Range(ReadyLoop(tasks, order, 1, <<>>))

\* Of three tasks, the third of which depends on the two others, two are
\* Completed and the third is next.
C31_Witness ==
    /\ DOMAIN tasks = TaskIds
    /\ Len(orch.ready["o1"]) = 1
    /\ Cardinality(DepSet(tasks, Head(orch.ready["o1"]))) = 2
    /\ tstats.tasks_completed = 2

(***************************************************************************)
(* Counters and what they count                                            *)
(***************************************************************************)
InState(st) == {id \in DOMAIN tasks : tasks[id].state = st}

\* C32: while no caller is inside a call, there are at most tasks_scheduled
\* registered tasks, at most tasks_completed Completed tasks, at most
\* tasks_failed Failed tasks, and execution_count is at most
\* total_executions.
C32_CountersBound ==
    (\A c \in Callers : pc[c].at = "idle") =>
        /\ Cardinality(DOMAIN tasks) <= tstats.tasks_scheduled
        /\ Cardinality(InState("Completed")) <= tstats.tasks_completed
        /\ Cardinality(InState("Failed")) <= tstats.tasks_failed
        /\ execution_count <= gstats.total_executions

\* Two begin_execution calls have been admitted and none has ended: the
\* count and the counter are both 2 and no caller is inside a call.
C32_Witness ==
    /\ \A c \in Callers : pc[c].at = "idle"
    /\ execution_count = 2
    /\ gstats.total_executions = 2

====
